---------------------------- MODULE Spec2Model ----------------------------
(***************************************************************************)
(* NBA game monitor: the poll cycle of QuarterUpdateService (main.py), the *)
(* change detector GameMonitor (src/game_monitor.py) and the day-scoped    *)
(* StateManager (src/state.py).                                            *)
(*                                                                         *)
(* Python strings that the code searches or strips are sequences of        *)
(* one-character strings, so that "Half" in status_text and clock.strip()  *)
(* are computed as the code computes them.                                 *)
(***************************************************************************)
EXTENDS Integers, Sequences, FiniteSets, TLC

VARIABLES
    today,                 \* the wall-clock date, as a day number (StateManager._get_today)
    state,                 \* StateManager._state: the DailyState in memory
    dirty,                 \* StateManager._dirty
    file,                  \* the state file: <<>> when absent, else <<the dict json.dump wrote>>
    close_game_cooldowns,  \* QuarterUpdateService.close_game_cooldowns (0: no entry)
    feed,                  \* what the data source can return for each game in this behaviour
    disk,                  \* whether writes of the state file can fail in this behaviour
    polled,                \* the games list of the last poll cycle, as fetched
    log,                   \* the notifier calls of the last poll cycle, in call order
    delivered,             \* history: notifier successes per emission key since the day began
    close_age,             \* history: poll cycles completed since the game's last close-game alert
    commit_failed,         \* history: some write of the state file has failed
    returned,              \* the last call on the StateManager, the GameMonitor or the API client: name, argument, result
    pc,                    \* run_continuous: where the loop is
    stop_event,            \* QuarterUpdateService.stop_event (threading.Event): is it set
    interval,              \* run_continuous: the interval of the last stop_event.wait, 0 before the first
    slept,                 \* history: the last stop_event.wait lasted its whole interval
    cycle_raised,          \* history: the last call of check_games raised
    at,                    \* check_games: the statement the main thread is at
    futures,               \* _enrich_games_parallel: its futures dict, one task per entry of games
    cycle_games,           \* check_games: the Game objects of the cycle, as the tasks have left them
    request_at,            \* _request_with_retry: the statement the call is at, None outside a call
    attempt,               \* _request_with_retry: the loop variable attempt
    gets,                  \* history: what each session.get of the call did, in order
    wait_times             \* history: the wait_time of each sleep of the call, in order

\* the loop of run_continuous
loop_vars == <<pc, stop_event, interval, slept, cycle_raised>>
\* the inside of one call of check_games
cycle_vars == <<at, futures, cycle_games>>
\* the inside of one call of _request_with_retry
request_vars == <<request_at, attempt, gets, wait_times>>

vars == <<today, state, dirty, file, close_game_cooldowns, feed, disk, polled, log,
          delivered, close_age, commit_failed, returned, loop_vars, cycle_vars,
          request_vars>>

-----------------------------------------------------------------------------
(* Bounds of the model.                                                    *)

\* close_game_alerts grows by one handle per alert: polling stops when a game has this many
MaxCloseAlerts == 2
\* the delivered counters saturate here
MaxDelivered == 2
\* close_age saturates here ("long ago or never")
MaxAge == 5
\* the wall clock runs from day 1 to this day
MaxDay == 2

GameIds == {"g1", "g2"}

-----------------------------------------------------------------------------
(* Program constants.                                                      *)

CLOSE_GAME_ALERT_COOLDOWN_POLLS == 4
CLOSE_GAME_THRESHOLD == 5
CLOSE_GAME_QUARTER == 4
HIGH_SCORE_THRESHOLD == 40
TRIPLE_DOUBLE_THRESHOLD == 10

NOT_STARTED == 1
IN_PROGRESS == 2
FINISHED == 3

\* NBAApiClient.MAX_RETRIES
MAX_RETRIES == 3

\* Python's None for an Optional[str]
None == "None"

-----------------------------------------------------------------------------
(* Strings.                                                                *)

\* the literals of the code and the texts and clocks of the data source
Text ==
    [empty |-> <<>>,
     Half |-> <<"H","a","l","f">>,
     Halftime |-> <<"H","a","l","f","t","i","m","e">>,
     Final |-> <<"F","i","n","a","l">>,
     FinalOT |-> <<"F","i","n","a","l","/","O","T">>,
     EndOfQ1 |-> <<"E","n","d"," ","o","f"," ","Q","1">>,
     EndOfQ3 |-> <<"E","n","d"," ","o","f"," ","Q","3">>,
     EndOfQ4 |-> <<"E","n","d"," ","o","f"," ","Q","4">>,
     EndOfOT |-> <<"E","n","d"," ","o","f"," ","O","T">>,
     Q4 |-> <<"Q","4">>,
     clock_0_00 |-> <<"0",":","0","0">>,
     clock_0_0 |-> <<"0",":","0">>,
     clock_5_32 |-> <<"5",":","3","2">>]

\* pat in text
Contains(pat, text) ==
    \E i \in 1..(Len(text) - Len(pat) + 1) : SubSeq(text, i, i + Len(pat) - 1) = pat

RECURSIVE LStrip(_)
LStrip(s) ==
    IF s # <<>> /\ Head(s) = " " THEN LStrip(Tail(s)) ELSE s

RECURSIVE RStrip(_)
RStrip(s) ==
    IF s # <<>> /\ s[Len(s)] = " " THEN RStrip(SubSeq(s, 1, Len(s) - 1)) ELSE s

\* str.strip()
Strip(s) == RStrip(LStrip(s))

Digit(d) ==
    CASE d = 0 -> "0" [] d = 1 -> "1" [] d = 2 -> "2" [] d = 3 -> "3" [] d = 4 -> "4"
      [] d = 5 -> "5" [] d = 6 -> "6" [] d = 7 -> "7" [] d = 8 -> "8" [] d = 9 -> "9"

\* str(n) for 0 <= n < 100
Decimal(n) == IF n < 10 THEN <<Digit(n)>> ELSE <<Digit(n \div 10), Digit(n % 10)>>

\* parse_iso_duration_to_clock on a duration that holds `minutes` and `seconds`:
\* f"{minutes}:{seconds:02d}"
parse_iso_duration_to_clock(duration) ==
    Decimal(duration.minutes) \o <<":">> \o <<Digit(duration.seconds \div 10), Digit(duration.seconds % 10)>>

-----------------------------------------------------------------------------
(* GameMonitor: the change detector.                                       *)

Abs(n) == IF n < 0 THEN -n ELSE n

is_tied(game) == game.home_score = game.away_score

\* a faulty variant: the status code is looked at before the status text
detect_quarter_end_status_first(game) ==
    IF game.status = 3 THEN <<IF game.period >= 4 THEN game.period ELSE 4>>
    ELSE IF Contains(Text.Half, game.status_text) THEN <<2>>
    ELSE IF Contains(Text.EndOfQ1, game.status_text) THEN <<1>>
    ELSE IF Contains(Text.EndOfQ3, game.status_text) THEN <<3>>
    ELSE IF Contains(Text.EndOfOT, game.status_text) THEN <<game.period>>
    ELSE <<>>

detect_quarter_end(game) ==
    IF Contains(Text.Halftime, game.status_text) \/ Contains(Text.Half, game.status_text) THEN <<2>>
    ELSE IF Contains(Text.EndOfQ1, game.status_text) THEN <<1>>
    ELSE IF Contains(Text.EndOfQ3, game.status_text) THEN <<3>>
    ELSE IF Contains(Text.EndOfOT, game.status_text) THEN <<game.period>>
    ELSE IF game.status = 3 THEN <<IF game.period >= 4 THEN game.period ELSE 4>>
    ELSE <<>>

\* a faulty variant: the status text alone
is_halftime_by_text(game) == Contains(Text.Half, game.status_text)

is_halftime(game) ==
    IF game.period = 2 /\ Strip(game.clock) \in {Text.empty, Text.clock_0_00, Text.clock_0_0} THEN TRUE
    ELSE IF Contains(Text.Halftime, game.status_text) \/ Contains(Text.Half, game.status_text) THEN TRUE
    ELSE FALSE

\* a faulty variant: End of Q4 is final whatever the score
is_final_whatever_the_score(game) ==
    game.status = 3 \/ Contains(Text.Final, game.status_text)
    \/ Contains(Text.EndOfQ4, game.status_text)

is_final(game) ==
    IF game.status = 3 THEN TRUE
    ELSE IF Contains(Text.Final, game.status_text) THEN TRUE
    ELSE IF Contains(Text.EndOfQ4, game.status_text) THEN ~is_tied(game)
    ELSE FALSE

\* a faulty variant: the period is not looked at
detect_close_game_in_any_period(game) ==
    IF game.status = 2 /\ Abs(game.home_score - game.away_score) <= CLOSE_GAME_THRESHOLD
    THEN <<[game_id |-> game.game_id,
            point_diff |-> Abs(game.home_score - game.away_score),
            period |-> game.period,
            clock |-> game.clock]>>
    ELSE <<>>

\* <<>> for None, else <<the CloseGameAlert>>
detect_close_game(game) ==
    IF game.status # 2 THEN <<>>
    ELSE IF game.period < CLOSE_GAME_QUARTER THEN <<>>
    ELSE IF Abs(game.home_score - game.away_score) <= CLOSE_GAME_THRESHOLD
         THEN <<[game_id |-> game.game_id,
                 point_diff |-> Abs(game.home_score - game.away_score),
                 period |-> game.period,
                 clock |-> game.clock]>>
    ELSE <<>>

Ind(b) == IF b THEN 1 ELSE 0

\* a faulty variant: steals and blocks are not counted
triple_double_cats_of_three(stats) ==
    Ind(stats.points >= TRIPLE_DOUBLE_THRESHOLD) + Ind(stats.rebounds >= TRIPLE_DOUBLE_THRESHOLD)
    + Ind(stats.assists >= TRIPLE_DOUBLE_THRESHOLD)

triple_double_cats(stats) ==
    Ind(stats.points >= TRIPLE_DOUBLE_THRESHOLD) + Ind(stats.rebounds >= TRIPLE_DOUBLE_THRESHOLD)
    + Ind(stats.assists >= TRIPLE_DOUBLE_THRESHOLD) + Ind(stats.steals >= TRIPLE_DOUBLE_THRESHOLD)
    + Ind(stats.blocks >= TRIPLE_DOUBLE_THRESHOLD)

close_cats(stats) ==
    Ind(7 <= stats.points /\ stats.points < TRIPLE_DOUBLE_THRESHOLD)
    + Ind(7 <= stats.rebounds /\ stats.rebounds < TRIPLE_DOUBLE_THRESHOLD)
    + Ind(7 <= stats.assists /\ stats.assists < TRIPLE_DOUBLE_THRESHOLD)
    + Ind(7 <= stats.steals /\ stats.steals < TRIPLE_DOUBLE_THRESHOLD)
    + Ind(7 <= stats.blocks /\ stats.blocks < TRIPLE_DOUBLE_THRESHOLD)

\* a faulty variant: two categories make a triple-double
player_alerts_from_two(player) ==
    IF ~player.played THEN <<>>
    ELSE (IF triple_double_cats(player.stats) >= 2
             THEN <<[name |-> player.name, alert_type |-> "triple_double"]>>
          ELSE <<>>)
         \o (IF player.stats.points >= HIGH_SCORE_THRESHOLD
                THEN <<[name |-> player.name, alert_type |-> "high_scorer"]>>
             ELSE <<>>)

\* the alerts of one player, in the order the loop body appends them
player_alerts(player) ==
    IF ~player.played THEN <<>>
    ELSE (IF triple_double_cats(player.stats) >= 3
             THEN <<[name |-> player.name, alert_type |-> "triple_double"]>>
          ELSE IF triple_double_cats(player.stats) = 2 /\ close_cats(player.stats) >= 1
             THEN <<[name |-> player.name, alert_type |-> "triple_double_watch"]>>
          ELSE <<>>)
         \o (IF player.stats.points >= HIGH_SCORE_THRESHOLD
                THEN <<[name |-> player.name, alert_type |-> "high_scorer"]>>
             ELSE <<>>)

RECURSIVE team_alerts(_)
team_alerts(players) ==
    IF players = <<>> THEN <<>>
    ELSE player_alerts(Head(players)) \o team_alerts(Tail(players))

detect_performance_alerts(game) ==
    team_alerts(game.home_players) \o team_alerts(game.away_players)

-----------------------------------------------------------------------------
(* StateManager, DailyState, GameState.                                    *)

\* GameState(game_id=game_id)
GameState(game_id) ==
    [game_id |-> game_id, thread_ts |-> None, posted_quarters |-> <<>>,
     game_started_posted |-> FALSE, halftime_posted |-> FALSE, final_posted |-> FALSE,
     close_game_alerts |-> <<>>, performance_alerts |-> <<>>]

InSeq(x, seq) == \E i \in 1..Len(seq) : seq[i] = x

\* a faulty variant: the list is replaced by the one quarter
mark_quarter_posted_only(game_state, quarter) ==
    [game_state EXCEPT !.posted_quarters = <<quarter>>]

mark_quarter_posted(game_state, quarter) ==
    IF ~InSeq(quarter, game_state.posted_quarters)
    THEN [game_state EXCEPT !.posted_quarters = Append(@, quarter)]
    ELSE game_state

\* the key f"{player_name}:{alert_type}": no alert type holds a colon, so the key
\* determines the pair
alert_key(player_name, alert_type) == <<player_name, alert_type>>

\* a faulty variant: the lookup goes by player name alone
has_posted_for_player(game_state, player_name, alert_type) ==
    \E i \in 1..Len(game_state.performance_alerts) :
        game_state.performance_alerts[i][1] = player_name

has_posted_performance_alert(game_state, player_name, alert_type) ==
    InSeq(alert_key(player_name, alert_type), game_state.performance_alerts)

mark_performance_alert_posted(game_state, player_name, alert_type) ==
    IF ~InSeq(alert_key(player_name, alert_type), game_state.performance_alerts)
    THEN [game_state EXCEPT !.performance_alerts = Append(@, alert_key(player_name, alert_type))]
    ELSE game_state

\* DailyState(date=date); games is a dict: a function on the ids it holds
DailyState(date) ==
    [date |-> date, games |-> [g \in {} |-> GameState(g)], end_of_night_posted |-> FALSE]

\* d[k] = v on a dict
Put(d, k, v) == [x \in DOMAIN d \cup {k} |-> IF x = k THEN v ELSE d[x]]

\* DailyState.get_game: get or create
daily_get_game(daily, game_id) ==
    IF game_id \notin DOMAIN daily.games
    THEN [daily EXCEPT !.games = Put(@, game_id, GameState(game_id))]
    ELSE daily

\* DailyState.to_dict: what json.dump writes
to_dict(daily) ==
    [date |-> daily.date,
     end_of_night_posted |-> daily.end_of_night_posted,
     games |-> [g \in DOMAIN daily.games |->
                  [game_id |-> daily.games[g].game_id,
                   thread_ts |-> daily.games[g].thread_ts,
                   posted_quarters |-> daily.games[g].posted_quarters,
                   game_started_posted |-> daily.games[g].game_started_posted,
                   halftime_posted |-> daily.games[g].halftime_posted,
                   final_posted |-> daily.games[g].final_posted,
                   close_game_alerts |-> daily.games[g].close_game_alerts,
                   performance_alerts |-> daily.games[g].performance_alerts]]]

\* dict.get(key, default) on a JSON object
get(data, key, default) == IF key \in DOMAIN data THEN data[key] ELSE default

\* DailyState.from_dict raises KeyError: data["date"] or game_data["game_id"] is missing
from_dict_raises(data) ==
    \/ "date" \notin DOMAIN data
    \/ \E g \in DOMAIN get(data, "games", <<>>) : "game_id" \notin DOMAIN data.games[g]

\* a faulty variant of from_dict: the two alert lists are not read back
from_dict_without_alerts(data) ==
    [date |-> data.date,
     end_of_night_posted |-> get(data, "end_of_night_posted", FALSE),
     games |-> [g \in DOMAIN get(data, "games", <<>>) |->
                  [game_id |-> data.games[g].game_id,
                   thread_ts |-> get(data.games[g], "thread_ts", None),
                   posted_quarters |-> get(data.games[g], "posted_quarters", <<>>),
                   game_started_posted |-> get(data.games[g], "game_started_posted", FALSE),
                   halftime_posted |-> get(data.games[g], "halftime_posted", FALSE),
                   final_posted |-> get(data.games[g], "final_posted", FALSE),
                   close_game_alerts |-> <<>>,
                   performance_alerts |-> <<>>]]]

\* DailyState.from_dict, where it does not raise
from_dict(data) ==
    [date |-> data.date,
     end_of_night_posted |-> get(data, "end_of_night_posted", FALSE),
     games |-> [g \in DOMAIN get(data, "games", <<>>) |->
                  [game_id |-> data.games[g].game_id,
                   thread_ts |-> get(data.games[g], "thread_ts", None),
                   posted_quarters |-> get(data.games[g], "posted_quarters", <<>>),
                   game_started_posted |-> get(data.games[g], "game_started_posted", FALSE),
                   halftime_posted |-> get(data.games[g], "halftime_posted", FALSE),
                   final_posted |-> get(data.games[g], "final_posted", FALSE),
                   close_game_alerts |-> get(data.games[g], "close_game_alerts", <<>>),
                   performance_alerts |-> get(data.games[g], "performance_alerts", <<>>)]]]

(* The state file is <<>> when it does not exist, else <<content>>. A content *)
(* that json.load turns into an object is that object (a function on its     *)
(* keys); the other contents are these three.                                *)

\* the file exists and open() is refused (PermissionError, an OSError)
Unreadable == [bytes |-> "unreadable"]
\* the file holds text json.load rejects (JSONDecodeError)
NotJson == [bytes |-> "not json"]
\* the file holds a JSON array: json.load succeeds and returns a list
JsonArray == [bytes |-> "json array"]

IsObject(content) == "bytes" \notin DOMAIN content

\* the result of DailyState(date=day), or of an exception that leaves _load
Loaded(daily) == [raised |-> None, state |-> <<daily>>]
Raised(exception) == [raised |-> exception, state |-> <<>>]

\* a faulty variant of _load: the stored date is not compared with today
load_result_any_date(f, day) ==
    IF f = <<>> THEN Loaded(DailyState(day))
    ELSE IF ~IsObject(f[1]) \/ from_dict_raises(f[1]) THEN Loaded(DailyState(day))
    ELSE Loaded(from_dict(f[1]))

\* StateManager._load: how the constructor of a StateManager ends. Of the exceptions
\* of the try block, json.JSONDecodeError and KeyError are caught.
load_result(f, day) ==
    IF f = <<>> THEN Loaded(DailyState(day))
    ELSE IF f[1] = Unreadable THEN Raised("PermissionError")
    ELSE IF f[1] = NotJson THEN Loaded(DailyState(day))
    ELSE IF f[1] = JsonArray THEN Raised("AttributeError")
    ELSE IF "date" \in DOMAIN f[1] /\ f[1].date = day
         THEN (IF from_dict_raises(f[1]) THEN Loaded(DailyState(day))
               ELSE Loaded(from_dict(f[1])))
    ELSE Loaded(DailyState(day))

\* StateManager._load: the DailyState a new StateManager starts with
load(f, day) == load_result(f, day).state[1]

(* The service's mutable state is threaded through the handlers as a record *)
(* sv = [state, dirty, file, commit_failed, cooldowns, log]; a handler      *)
(* yields the set of records it can end in, one per outcome of the notifier *)
(* calls and file writes it makes.                                          *)

\* open(state_file, "w") + json.dump on a faulty disk: the file is written; or open
\* raises IOError and the file is as it was; or open has truncated the file and the
\* dump raises IOError part-way, leaving text json.load rejects
WriteOutcomes == IF disk = "faulty" THEN {"written", "refused", "torn"} ELSE {"written"}

\* a faulty variant of _save: the dirty mark is cleared whether or not the write succeeded
save_clears_dirty(sv) ==
    IF sv.dirty
    THEN { IF outcome = "written"
           THEN [sv EXCEPT !.file = <<to_dict(sv.state)>>, !.dirty = FALSE]
           ELSE [sv EXCEPT !.dirty = FALSE, !.commit_failed = TRUE]
           : outcome \in WriteOutcomes }
    ELSE {sv}

\* StateManager._save
save(sv) ==
    IF sv.dirty
    THEN { IF outcome = "written"
           THEN [sv EXCEPT !.file = <<to_dict(sv.state)>>, !.dirty = FALSE]
           ELSE IF outcome = "refused"
           THEN [sv EXCEPT !.commit_failed = TRUE]
           ELSE [sv EXCEPT !.file = <<NotJson>>, !.commit_failed = TRUE]
           : outcome \in WriteOutcomes }
    ELSE {sv}

\* StateManager.get_game
get_game(sv, game_id) ==
    LET current == IF sv.state.date # today THEN DailyState(today) ELSE sv.state
    IN  [sv EXCEPT !.state = daily_get_game(current, game_id)]

\* a faulty variant of save_game: the games dict is replaced by the one game saved
save_game_alone(sv, game_state) ==
    save([sv EXCEPT !.state.games = Put(<<>>, game_state.game_id, game_state), !.dirty = TRUE])

\* StateManager.save_game
save_game(sv, game_state) ==
    save([sv EXCEPT !.state.games = Put(@, game_state.game_id, game_state), !.dirty = TRUE])

\* StateManager.is_end_of_night_posted
is_end_of_night_posted(sv) == sv.state.end_of_night_posted

\* StateManager.mark_end_of_night_posted
mark_end_of_night_posted(sv) ==
    save([sv EXCEPT !.state.end_of_night_posted = TRUE, !.dirty = TRUE])

\* StateManager.get_all_game_states
get_all_game_states(sv) == sv.state.games

\* one call on the StateManager or the GameMonitor as `returned` keeps it: arg and
\* value are <<>> or <<x>>
Returned(op, arg, value, raised) == [op |-> op, arg |-> arg, value |-> value, raised |-> raised]

-----------------------------------------------------------------------------
(* SlackClient.                                                            *)

\* the message timestamp chat.postMessage answers with
MessageTs == "ts"

\* SlackClient.post_message / post_thread_reply: the timestamp, or None on failure
PostResults == {MessageTs, None}

\* one notifier call, as the log keeps it
Call(game_id, kind, name, ts) ==
    [game_id |-> game_id, kind |-> kind, name |-> name, ok |-> ts # None]

Logged(sv, call) == [sv EXCEPT !.log = Append(@, call)]

-----------------------------------------------------------------------------
(* QuarterUpdateService: the handlers of one poll cycle.                   *)

\* the GameState object a handler holds after state.get_game(game_id)
StateOf(sv, game_id) == sv.state.games[game_id]

\* a faulty variant of _handle_game_start: game_started_posted is set whatever the notifier
\* answered
handle_game_start_always_marked(sv, game) ==
    LET sv1 == get_game(sv, game.game_id)
        game_state == StateOf(sv1, game.game_id)
    IN  IF ~game_state.game_started_posted
        THEN UNION { save_game(Logged(sv1, Call(game.game_id, "game_start", "", thread_ts)),
                               [game_state EXCEPT !.game_started_posted = TRUE,
                                                  !.thread_ts = thread_ts])
                     : thread_ts \in PostResults }
        ELSE {sv1}

\* QuarterUpdateService._handle_game_start
handle_game_start(sv, game) ==
    LET sv1 == get_game(sv, game.game_id)
        game_state == StateOf(sv1, game.game_id)
    IN  IF ~game_state.game_started_posted
        THEN UNION { LET sv2 == Logged(sv1, Call(game.game_id, "game_start", "", thread_ts))
                     IN  IF thread_ts # None
                         THEN save_game(sv2, [game_state EXCEPT !.game_started_posted = TRUE,
                                                                !.thread_ts = thread_ts])
                         ELSE {sv2}
                     : thread_ts \in PostResults }
        ELSE {sv1}

\* a faulty variant of _post_halftime: the message is sent and nothing is recorded
post_halftime_unrecorded(sv, game) ==
    { Logged(sv, Call(game.game_id, "halftime", "", ts)) : ts \in PostResults }

\* QuarterUpdateService._post_halftime
post_halftime(sv, game) ==
    LET game_state == StateOf(sv, game.game_id)
    IN  UNION { save_game(Logged(sv, Call(game.game_id, "halftime", "", ts)),
                          mark_quarter_posted([game_state EXCEPT !.halftime_posted = TRUE], 2))
                : ts \in PostResults }

\* QuarterUpdateService._post_final
post_final(sv, game) ==
    LET game_state == StateOf(sv, game.game_id)
    IN  UNION { save_game(Logged(sv, Call(game.game_id, "final", "", ts)),
                          mark_quarter_posted([game_state EXCEPT !.final_posted = TRUE], game.period))
                : ts \in PostResults }

\* a faulty variant: one close-game alert per game
should_post_first_close_game_alert(sv, game_id) ==
    sv.cooldowns[game_id] <= 0 /\ StateOf(sv, game_id).close_game_alerts = <<>>

\* QuarterUpdateService._should_post_close_game_alert
should_post_close_game_alert(sv, game_id) == sv.cooldowns[game_id] <= 0

\* QuarterUpdateService._post_close_game_alert
post_close_game_alert(sv, alert) ==
    LET game_state == StateOf(sv, alert.game_id)
        posted ==
            IF game_state.thread_ts # None
            THEN UNION { LET sv1 == Logged(sv, Call(alert.game_id, "close_game", "", ts))
                         IN  IF ts # None
                             THEN save_game(sv1, [game_state EXCEPT !.close_game_alerts = Append(@, ts)])
                             ELSE {sv1}
                         : ts \in PostResults }
            ELSE {sv}
    IN  { [sv1 EXCEPT !.cooldowns[alert.game_id] = CLOSE_GAME_ALERT_COOLDOWN_POLLS] : sv1 \in posted }

\* a faulty variant of _post_performance_alert: the alert is sent and nothing is recorded
post_performance_alert_unrecorded(sv, game_id, alert) ==
    IF StateOf(sv, game_id).thread_ts # None
    THEN { Logged(sv, Call(game_id, alert.alert_type, alert.name, ts)) : ts \in PostResults }
    ELSE {sv}

\* a faulty variant of _post_performance_alert: the alert is sent as a message of its
\* own when the game has no thread
post_performance_alert_without_thread(sv, game_id, alert) ==
    LET game_state == StateOf(sv, game_id)
    IN  UNION { LET sv1 == Logged(sv, Call(game_id, alert.alert_type, alert.name, ts))
                IN  IF ts # None
                    THEN save_game(sv1, mark_performance_alert_posted(game_state, alert.name,
                                                                      alert.alert_type))
                    ELSE {sv1}
                : ts \in PostResults }

\* QuarterUpdateService._post_performance_alert
post_performance_alert(sv, game_id, alert) ==
    LET game_state == StateOf(sv, game_id)
    IN  IF game_state.thread_ts # None
        THEN UNION { LET sv1 == Logged(sv, Call(game_id, alert.alert_type, alert.name, ts))
                     IN  IF ts # None
                         THEN save_game(sv1, mark_performance_alert_posted(game_state, alert.name,
                                                                           alert.alert_type))
                         ELSE {sv1}
                     : ts \in PostResults }
        ELSE {sv}

\* the loop over performance_alerts in _process_in_progress_game, from a set of service states
RECURSIVE performance_alert_loop(_, _, _)
performance_alert_loop(svs, game_id, alerts) ==
    IF alerts = <<>> THEN svs
    ELSE performance_alert_loop(
             UNION { IF ~has_posted_performance_alert(StateOf(sv, game_id), Head(alerts).name,
                                                      Head(alerts).alert_type)
                     THEN post_performance_alert(sv, game_id, Head(alerts))
                     ELSE {sv}
                     : sv \in svs },
             game_id, Tail(alerts))

\* QuarterUpdateService._process_in_progress_game
process_in_progress_game(sv, game) ==
    LET sv1 == get_game(sv, game.game_id)
        after_halftime ==
            IF is_halftime(game) /\ ~StateOf(sv1, game.game_id).halftime_posted
            THEN post_halftime(sv1, game)
            ELSE {sv1}
        close_alert == detect_close_game(game)
        after_close ==
            UNION { IF close_alert # <<>> /\ should_post_close_game_alert(sv2, game.game_id)
                    THEN post_close_game_alert(sv2, close_alert[1])
                    ELSE {sv2}
                    : sv2 \in after_halftime }
    IN  performance_alert_loop(after_close, game.game_id, detect_performance_alerts(game))

\* QuarterUpdateService._process_finished_game
process_finished_game(sv, game) ==
    LET sv1 == get_game(sv, game.game_id)
    IN  IF ~StateOf(sv1, game.game_id).final_posted
        THEN post_final(sv1, game)
        ELSE {sv1}

\* QuarterUpdateService._update_cooldowns
update_cooldowns(sv) ==
    [sv EXCEPT !.cooldowns = [g \in DOMAIN @ |-> IF @[g] - 1 <= 0 THEN 0 ELSE @[g] - 1]]

\* QuarterUpdateService._post_end_of_night_summary
post_end_of_night_summary(sv, games) ==
    UNION { LET sv1 == Logged(sv, Call("", "end_of_night", "", ts))
            IN  IF ts # None THEN mark_end_of_night_posted(sv1) ELSE {sv1}
            : ts \in PostResults }

\* a faulty variant of _check_end_of_night: one finished game is enough
check_end_of_night_any_finished(sv, games) ==
    IF is_end_of_night_posted(sv) THEN {sv}
    ELSE IF games = <<>> THEN {sv}
    ELSE IF ~(\E i \in 1..Len(games) : games[i].status = 3) THEN {sv}
    ELSE post_end_of_night_summary(sv, games)

\* QuarterUpdateService._check_end_of_night
check_end_of_night(sv, games) ==
    IF is_end_of_night_posted(sv) THEN {sv}
    ELSE IF games = <<>> THEN {sv}
    ELSE IF ~(\A i \in 1..Len(games) : games[i].status = 3) THEN {sv}
    ELSE post_end_of_night_summary(sv, games)

-----------------------------------------------------------------------------
(* The data source: schedule snapshots and boxscores.                      *)

\* check_games works on the list self.api.get_todays_games() hands it. That list is the
\* input of a poll cycle here: get_todays_games (nba_api.py) builds it with
\* Game.from_schedule_api(g, game_date=...), a keyword the from_schedule_api of
\* models.py does not take, so the list is modelled as check_games receives it, each
\* Game made the way from_schedule_api makes it.
\*
\* Game.from_schedule_api on one game of the rolling schedule; boxscore is what
\* get_boxscore(game_id) answers in this poll cycle: <<>> (None) or <<the boxscore>>
from_schedule_api(data) ==
    [game_id |-> data.game_id, status |-> data.status, status_text |-> Strip(data.status_text),
     period |-> data.period, clock |-> Strip(data.clock),
     home_score |-> data.home_score, away_score |-> data.away_score,
     home_players |-> <<>>, away_players |-> <<>>, boxscore |-> data.boxscore]

\* NBAApiClient.enrich_game_with_boxscore
enrich_game_with_boxscore(game) ==
    IF game.boxscore = <<>> THEN game
    ELSE LET boxscore == game.boxscore[1]
         IN  [game EXCEPT
                !.period = IF boxscore.period # <<>> THEN boxscore.period[1] ELSE @,
                !.clock = IF boxscore.gameClock # <<>>
                          THEN parse_iso_duration_to_clock(boxscore.gameClock[1]) ELSE @,
                !.home_players = boxscore.home_players,
                !.away_players = boxscore.away_players]

-----------------------------------------------------------------------------
(* QuarterUpdateService.check_games.                                       *)

\* for game in in_progress: self._handle_game_start(game), from a set of service states
RECURSIVE handle_game_starts(_, _)
handle_game_starts(svs, games) ==
    IF games = <<>> THEN svs
    ELSE handle_game_starts(UNION { handle_game_start(sv, Head(games)) : sv \in svs }, Tail(games))

\* for game in in_progress: self._process_in_progress_game(game)
RECURSIVE process_in_progress_games(_, _)
process_in_progress_games(svs, games) ==
    IF games = <<>> THEN svs
    ELSE process_in_progress_games(UNION { process_in_progress_game(sv, Head(games)) : sv \in svs },
                                   Tail(games))

\* for game in finished: self._process_finished_game(game)
RECURSIVE process_finished_games(_, _)
process_finished_games(svs, games) ==
    IF games = <<>> THEN svs
    ELSE process_finished_games(UNION { process_finished_game(sv, Head(games)) : sv \in svs },
                                Tail(games))

\* the state.get_game calls of the games_to_enrich comprehension
RECURSIVE get_games(_, _)
get_games(sv, games) ==
    IF games = <<>> THEN sv ELSE get_games(get_game(sv, Head(games).game_id), Tail(games))

\* a faulty variant of the in_progress test: a status-2 game whose text says Final is left out
in_progress_unless_final(g) == g.status = 2 /\ ~is_final(g)

\* the condition of the in_progress comprehension
in_progress_test(g) == g.status = 2 \/ (g.status # 1 /\ ~is_final(g))

\* check_games from the first loop on, for one service state
\* the condition a game is on games_to_enrich by: in_progress, or finished without
\* final_posted
enrich_test(sv, g) ==
    in_progress_test(g) \/ (is_final(g) /\ ~StateOf(sv, g.game_id).final_posted)

\* check_games after the enrichment pass, on the Game objects as the pass left
\* them (the pass changes nothing that the two comprehensions read)
process_games(sv, games) ==
    LET finished == SelectSeq(games, is_final)
        in_progress == SelectSeq(games, in_progress_test)
        processed == process_finished_games(process_in_progress_games({sv}, in_progress), finished)
    IN  UNION { check_end_of_night(update_cooldowns(sv2), games) : sv2 \in processed }

check_games_body(sv, games) ==
    LET finished == SelectSeq(games, is_final)
        in_progress == SelectSeq(games, in_progress_test)
        \* the enrichment pass: every game of games_to_enrich gets its boxscore
        rest(sv0) ==
            LET sv1 == get_games(sv0, finished)
            IN  process_games(sv1, [i \in 1..Len(games) |->
                                       IF enrich_test(sv1, games[i])
                                       THEN enrich_game_with_boxscore(games[i]) ELSE games[i]])
    IN  UNION { rest(sv0) : sv0 \in handle_game_starts({sv}, in_progress) }

\* QuarterUpdateService.check_games on the games get_todays_games returned
check_games(sv, data) ==
    IF data = <<>> THEN {sv}
    ELSE check_games_body(sv, [i \in 1..Len(data) |-> from_schedule_api(data[i])])

\* what check_games returns: are there active games
check_games_returns(data) ==
    IF data = <<>> THEN FALSE
    ELSE Len(SelectSeq([i \in 1..Len(data) |-> from_schedule_api(data[i])], in_progress_test)) > 0

-----------------------------------------------------------------------------
(* What the data source answers: concrete snapshots.                       *)

Player(name, played, points, rebounds, assists) ==
    [name |-> name, played |-> played,
     stats |-> [points |-> points, rebounds |-> rebounds, assists |-> assists,
                steals |-> 1, blocks |-> 0]]

Boxscore(period, minutes, seconds, home_players, away_players) ==
    <<[period |-> <<period>>, gameClock |-> <<[minutes |-> minutes, seconds |-> seconds]>>,
       home_players |-> home_players, away_players |-> away_players]>>

Snapshot(game_id, status, status_text, period, clock, home_score, away_score, boxscore) ==
    [game_id |-> game_id, status |-> status, status_text |-> status_text, period |-> period,
     clock |-> clock, home_score |-> home_score, away_score |-> away_score,
     boxscore |-> boxscore]

Bench == Player("C", FALSE, 0, 0, 0)

\* the snapshots of game g the feeds are made of, one field each
Schedule(g) ==
     \* tip-off is still ahead
    [NotStarted |->
        Snapshot(g, 1, Text.empty, 0, Text.empty, 0, 0, <<>>),
     \* second quarter under way
     Live |->
        Snapshot(g, 2, Text.empty, 2, Text.clock_5_32, 50, 40,
                 Boxscore(2, 5, 32, <<Bench>>, <<>>)),
     \* the schedule still shows 5:32, the boxscore has the second quarter over
     HalftimeByClock |->
        Snapshot(g, 2, Text.empty, 2, Text.clock_5_32, 55, 48,
                 Boxscore(2, 0, 0, <<Bench>>, <<>>)),
     \* the schedule says Halftime and the boxscore fetch failed
     HalftimeByText |->
        Snapshot(g, 2, Text.Halftime, 2, Text.empty, 55, 48, <<>>),
     \* the first and the third quarter just ended
     EndOfQ1 |->
        Snapshot(g, 2, Text.EndOfQ1, 1, Text.clock_0_00, 28, 25,
                 Boxscore(1, 0, 0, <<Bench>>, <<>>)),
     EndOfQ3 |->
        Snapshot(g, 2, Text.EndOfQ3, 3, Text.clock_0_00, 80, 77,
                 Boxscore(3, 0, 0, <<Bench>>, <<>>)),
     \* regulation ended level: overtime follows
     TiedAfterQ4 |->
        Snapshot(g, 2, Text.EndOfQ4, 4, Text.clock_0_00, 100, 100,
                 Boxscore(4, 0, 0, <<Bench>>, <<>>)),
     \* the status text says Final while the status code still says in progress
     FinalText |->
        Snapshot(g, 2, Text.Final, 4, Text.empty, 110, 99,
                 Boxscore(4, 0, 0, <<Bench>>, <<>>)),
     Finished |->
        Snapshot(g, 3, Text.Final, 4, Text.empty, 110, 99,
                 Boxscore(4, 0, 0, <<Bench>>, <<>>)),
     FinishedOT |->
        Snapshot(g, 3, Text.FinalOT, 5, Text.empty, 120, 118,
                 Boxscore(5, 0, 0, <<Bench>>, <<>>)),
     \* fourth quarter, three points apart
     Close |->
        Snapshot(g, 2, Text.Q4, 4, Text.clock_5_32, 98, 95,
                 Boxscore(4, 5, 32, <<Bench>>, <<>>)),
     \* fourth quarter, twenty apart
     Blowout |->
        Snapshot(g, 2, Text.Q4, 4, Text.clock_5_32, 110, 90,
                 Boxscore(4, 5, 32, <<Bench>>, <<>>)),
     \* player A: two categories at 10 and assists at 8
     Watch |->
        Snapshot(g, 2, Text.empty, 3, Text.clock_5_32, 70, 60,
                 Boxscore(3, 5, 32, <<Player("A", TRUE, 12, 11, 8), Bench>>, <<>>)),
     \* player A: a triple-double
     TripleDouble |->
        Snapshot(g, 2, Text.empty, 3, Text.clock_5_32, 74, 62,
                 Boxscore(3, 5, 32, <<Player("A", TRUE, 14, 12, 10), Bench>>, <<>>)),
     \* player A: a triple-double and 41 points; player B of the other team: 42 points
     HighScorer |->
        Snapshot(g, 2, Text.empty, 3, Text.clock_5_32, 90, 88,
                 Boxscore(3, 5, 32, <<Player("A", TRUE, 41, 12, 10)>>, <<Player("B", TRUE, 42, 3, 2)>>))]

\* a feed gives, per game, the answers the schedule can hold for it: <<>> when the
\* game is not on the schedule, else <<the snapshot>>.  Idle is a quiet night: the
\* schedule can be empty, and no game may be under way; FaultyDisk is the feed
\* followed on a disk whose writes can fail
Feed ==
    [Milestone |->
        [g \in GameIds |->
            IF g = "g1"
            THEN {<<Schedule(g).NotStarted>>, <<Schedule(g).Live>>, <<Schedule(g).HalftimeByClock>>, <<Schedule(g).HalftimeByText>>,
                  <<Schedule(g).TiedAfterQ4>>, <<Schedule(g).FinalText>>, <<Schedule(g).Finished>>, <<Schedule(g).FinishedOT>>}
            ELSE {<<>>}],
     Night |->
        [g \in GameIds |->
            IF g = "g1"
            THEN {<<>>, <<Schedule(g).Live>>, <<Schedule(g).Finished>>}
            ELSE {<<Schedule(g).NotStarted>>, <<Schedule(g).Live>>, <<Schedule(g).Finished>>}],
     Close |->
        [g \in GameIds |->
            IF g = "g1"
            THEN {<<Schedule(g).Close>>, <<Schedule(g).Blowout>>}
            ELSE {<<>>, <<Schedule(g).Close>>}],
     Performance |->
        [g \in GameIds |->
            IF g = "g1"
            THEN {<<Schedule(g).Live>>, <<Schedule(g).Watch>>, <<Schedule(g).TripleDouble>>, <<Schedule(g).HighScorer>>}
            ELSE {<<>>}],
     Quarter |->
        [g \in GameIds |->
            IF g = "g1"
            THEN {<<Schedule(g).Live>>, <<Schedule(g).EndOfQ1>>, <<Schedule(g).EndOfQ3>>}
            ELSE {<<>>}],
     Idle |->
        [g \in GameIds |->
            IF g = "g1"
            THEN {<<>>, <<Schedule(g).Live>>, <<Schedule(g).Finished>>}
            ELSE {<<>>, <<Schedule(g).NotStarted>>}],
     FaultyDisk |->
        [g \in GameIds |->
            IF g = "g1"
            THEN {<<Schedule(g).Live>>, <<Schedule(g).HalftimeByClock>>, <<Schedule(g).Finished>>}
            ELSE {<<>>}]]

Feeds == {Feed.Milestone, Feed.Night, Feed.Close, Feed.Performance, Feed.Quarter, Feed.Idle}

\* the environments a behaviour runs in: the schedule feed and the disk
Environments ==
    { <<f, "reliable">> : f \in Feeds } \cup { <<Feed.FaultyDisk, "faulty">> }

\* get_todays_games: the games on the schedule, in schedule order
Polls == { on1 \o on2 : on1 \in feed["g1"], on2 \in feed["g2"] }

-----------------------------------------------------------------------------
(* History.                                                                *)

EmissionKey(call) == <<call.game_id, call.kind, call.name>>

RECURSIVE Count(_, _)
Count(d, calls) ==
    IF calls = <<>> THEN d
    ELSE LET k == EmissionKey(Head(calls))
             n == IF k \in DOMAIN d THEN d[k] ELSE 0
         IN  Count(IF Head(calls).ok THEN Put(d, k, IF n < MaxDelivered THEN n + 1 ELSE n) ELSE d,
                   Tail(calls))

Delivered(key) == IF key \in DOMAIN delivered THEN delivered[key] ELSE 0

\* the calls of a log for one game and kind
Calls(l, game_id, kind) == SelectSeq(l, LAMBDA c : c.game_id = game_id /\ c.kind = kind)

Emitted(l, game_id, kind) == \E i \in 1..Len(l) : l[i].game_id = game_id /\ l[i].kind = kind /\ l[i].ok

Attempted(l, game_id, kind) == \E i \in 1..Len(l) : l[i].game_id = game_id /\ l[i].kind = kind

-----------------------------------------------------------------------------
(* The specification.                                                      *)

Service == [state |-> state, dirty |-> dirty, file |-> file, commit_failed |-> commit_failed,
            cooldowns |-> close_game_cooldowns, log |-> <<>>]

\* the service constructed on the first day, with no state file
Constructs ==
    /\ today = 1
    /\ file = <<>>
    /\ state = load(file, today)
    /\ dirty = FALSE
    /\ close_game_cooldowns = [g \in GameIds |-> 0]
    /\ polled = <<>>
    /\ log = <<>>
    /\ delivered = <<>>
    /\ close_age = [g \in GameIds |-> MaxAge]
    /\ commit_failed = FALSE
    /\ returned = Returned("__init__", <<>>, <<>>, None)
    /\ pc = "while"
    /\ stop_event = FALSE
    /\ interval = 0
    /\ slept = FALSE
    /\ cycle_raised = FALSE
    /\ at = "return"
    /\ futures = <<>>
    /\ request_at = None
    /\ attempt = 0
    /\ gets = <<>>
    /\ wait_times = <<>>

Init ==
    /\ Constructs
    /\ \E env \in Environments : feed = env[1] /\ disk = env[2]
    /\ cycle_games = <<>>

\* one call of check_games from start to return, get_todays_games answering data
CycleOn(data) ==
    /\ \A g \in DOMAIN state.games : Len(state.games[g].close_game_alerts) < MaxCloseAlerts
    /\ \E sv \in check_games(Service, data) :
        /\ polled' = data
        /\ state' = sv.state
        /\ dirty' = sv.dirty
        /\ file' = sv.file
        /\ commit_failed' = sv.commit_failed
        /\ close_game_cooldowns' = sv.cooldowns
        /\ log' = sv.log
        /\ delivered' = Count(delivered, sv.log)
        /\ close_age' = [g \in GameIds |->
                           IF Emitted(sv.log, g, "close_game") THEN 0
                           ELSE IF close_age[g] < MaxAge THEN close_age[g] + 1 ELSE MaxAge]
    /\ UNCHANGED <<today, feed, disk, returned>>

\* one poll cycle: run_once
CheckGames == (\E data \in Polls : CycleOn(data)) /\ UNCHANGED <<loop_vars, cycle_vars, request_vars>>

\* the process ends and a new one is started the same day: QuarterUpdateService.__init__
Restart ==
    /\ state' = load(file, today)
    /\ dirty' = FALSE
    /\ close_game_cooldowns' = [g \in GameIds |-> 0]
    /\ polled' = <<>>
    /\ log' = <<>>
    /\ UNCHANGED <<today, file, feed, disk, delivered, close_age, commit_failed, returned>>
    /\ UNCHANGED <<loop_vars, cycle_vars, request_vars>>

Next == CheckGames \/ Restart

Spec == Init /\ [][Next]_vars

\* one process from start to end
SpecRun == Init /\ [][CheckGames]_vars

-----------------------------------------------------------------------------
(* The StateManager under any client: its methods called in any order,     *)
(* the date advancing, the process restarted and the file damaged between  *)
(* processes.                                                              *)

\* a StateManager exists: the constructor of the running process did not raise
Constructed == ~(returned.op = "__init__" /\ returned.raised # None)

\* the GameState objects a client hands to save_game for game g: the object get_game
\* gave it, with a milestone marked
Marked(game_state) ==
    {[game_state EXCEPT !.game_started_posted = TRUE, !.thread_ts = MessageTs],
     mark_quarter_posted([game_state EXCEPT !.halftime_posted = TRUE], 2),
     [mark_performance_alert_posted(game_state, "A", "high_scorer")
        EXCEPT !.close_game_alerts = IF @ = <<>> THEN <<MessageTs>> ELSE @]}

\* the games the client asks the StateManager about
StoreGames == {"g1"}

\* the StateManager of a process that has just started, on either disk
InitStore == Init /\ feed \in {Feed.Quarter, Feed.FaultyDisk}

StoreGetGame ==
    /\ Constructed
    /\ \E g \in StoreGames :
         LET sv == get_game(Service, g)
         IN  /\ state' = sv.state
             /\ returned' = Returned("get_game", <<g>>, <<StateOf(sv, g)>>, None)
    /\ UNCHANGED <<today, dirty, file, close_game_cooldowns, feed, disk, polled, log,
                   delivered, close_age, commit_failed>>
    /\ UNCHANGED <<loop_vars, cycle_vars, request_vars>>

StoreSaveGame ==
    /\ Constructed
    /\ \E g \in StoreGames : \E game_state \in Marked(daily_get_game(state, g).games[g]) :
         \E sv \in save_game(Service, game_state) :
             /\ state' = sv.state
             /\ dirty' = sv.dirty
             /\ file' = sv.file
             /\ commit_failed' = sv.commit_failed
             /\ returned' = Returned("save_game", <<game_state>>, <<>>, None)
    /\ UNCHANGED <<today, close_game_cooldowns, feed, disk, polled, log, delivered, close_age>>
    /\ UNCHANGED <<loop_vars, cycle_vars, request_vars>>

StoreIsEndOfNightPosted ==
    /\ Constructed
    /\ returned' = Returned("is_end_of_night_posted", <<>>, <<is_end_of_night_posted(Service)>>, None)
    /\ UNCHANGED <<today, state, dirty, file, close_game_cooldowns, feed, disk, polled, log,
                   delivered, close_age, commit_failed>>
    /\ UNCHANGED <<loop_vars, cycle_vars, request_vars>>

StoreMarkEndOfNightPosted ==
    /\ Constructed
    /\ \E sv \in mark_end_of_night_posted(Service) :
         /\ state' = sv.state
         /\ dirty' = sv.dirty
         /\ file' = sv.file
         /\ commit_failed' = sv.commit_failed
         /\ returned' = Returned("mark_end_of_night_posted", <<>>, <<>>, None)
    /\ UNCHANGED <<today, close_game_cooldowns, feed, disk, polled, log, delivered, close_age>>
    /\ UNCHANGED <<loop_vars, cycle_vars, request_vars>>

\* StateManager.flush
StoreFlush ==
    /\ Constructed
    /\ \E sv \in save(Service) :
         /\ state' = sv.state
         /\ dirty' = sv.dirty
         /\ file' = sv.file
         /\ commit_failed' = sv.commit_failed
         /\ returned' = Returned("flush", <<>>, <<>>, None)
    /\ UNCHANGED <<today, close_game_cooldowns, feed, disk, polled, log, delivered, close_age>>
    /\ UNCHANGED <<loop_vars, cycle_vars, request_vars>>

StoreGetAllGameStates ==
    /\ Constructed
    /\ returned' = Returned("get_all_game_states", <<>>, <<get_all_game_states(Service)>>, None)
    /\ UNCHANGED <<today, state, dirty, file, close_game_cooldowns, feed, disk, polled, log,
                   delivered, close_age, commit_failed>>
    /\ UNCHANGED <<loop_vars, cycle_vars, request_vars>>

\* a new process constructs its StateManager: StateManager.__init__ with _load. When
\* _load raises there is no StateManager, and state keeps a value nothing reads.
StoreRestart ==
    /\ LET result == load_result(file, today)
       IN  /\ returned' = Returned("__init__", <<>>, <<>>, result.raised)
           /\ state' = IF result.raised = None THEN result.state[1] ELSE state
    /\ dirty' = FALSE
    /\ UNCHANGED <<today, file, close_game_cooldowns, feed, disk, polled, log,
                   delivered, close_age, commit_failed>>
    /\ UNCHANGED <<loop_vars, cycle_vars, request_vars>>

\* midnight passes: datetime.now() gives the next date
NewDay ==
    /\ today < MaxDay
    /\ today' = today + 1
    /\ UNCHANGED <<state, dirty, file, close_game_cooldowns, feed, disk, polled, log,
                   delivered, close_age, commit_failed, returned>>
    /\ UNCHANGED <<loop_vars, cycle_vars, request_vars>>

\* what can become of an object in the file: a key is lost
WithoutDate(content) == [k \in DOMAIN content \ {"date"} |-> content[k]]
WithoutGameIds(content) ==
    [content EXCEPT !.games = [g \in DOMAIN content.games |->
                                 [k \in DOMAIN content.games[g] \ {"game_id"} |->
                                    content.games[g][k]]]]

\* the file is damaged or replaced from outside
DamageFile ==
    /\ \/ file' \in {<<Unreadable>>, <<NotJson>>, <<JsonArray>>}
       \/ /\ file # <<>>
          /\ IsObject(file[1])
          /\ "date" \in DOMAIN file[1]
          /\ ~from_dict_raises(file[1])
          /\ DOMAIN file[1].games # {}
          /\ file' \in {<<WithoutDate(file[1])>>, <<WithoutGameIds(file[1])>>}
    /\ UNCHANGED <<today, state, dirty, close_game_cooldowns, feed, disk, polled, log,
                   delivered, close_age, commit_failed, returned>>
    /\ UNCHANGED <<loop_vars, cycle_vars, request_vars>>

StoreAccess ==
    \/ StoreGetGame
    \/ StoreSaveGame
    \/ StoreIsEndOfNightPosted
    \/ StoreMarkEndOfNightPosted
    \/ StoreFlush
    \/ StoreGetAllGameStates

NextStore == StoreAccess \/ StoreRestart \/ NewDay \/ DamageFile

SpecStore == InitStore /\ [][NextStore]_vars

-----------------------------------------------------------------------------
(* run_continuous: the polling loop.                                       *)

poll_interval_active == 45
poll_interval_idle == 300

while_true(stop) == TRUE

\* the loop condition
while_test(stop) == ~stop

interval_always_idle(has_active_games) == poll_interval_idle

\* the interval the loop waits after a cycle
sleep_interval(has_active_games) ==
    IF has_active_games THEN poll_interval_active ELSE poll_interval_idle

\* what a cycle can raise
CycleExceptions == {"TypeError", "ValueError", "OSError"}

except_RequestException(exception) == exception = "RequestException"

\* the except clause around check_games: does it catch
except_Exception(exception) == TRUE

InitLoop == Init /\ feed = Feed.Idle /\ disk = "reliable"

\* while not self.stop_event.is_set()
LoopTest ==
    /\ pc = "while"
    /\ pc' = IF while_test(stop_event) THEN "try" ELSE "done"
    /\ UNCHANGED <<today, state, dirty, file, close_game_cooldowns, feed, disk, polled, log,
                   delivered, close_age, commit_failed, returned,
                   stop_event, interval, slept, cycle_raised, cycle_vars, request_vars>>

\* check_games returns, and the interval is chosen from what it returned
LoopCheckGames ==
    /\ pc = "try"
    /\ \E data \in Polls :
        /\ CycleOn(data)
        /\ interval' = sleep_interval(check_games_returns(data))
    /\ pc' = "wait"
    /\ cycle_raised' = FALSE
    /\ UNCHANGED <<stop_event, slept, cycle_vars, request_vars>>

\* check_games raises before it has a list of games; has_active_games keeps the
\* False the turn of the loop began with
LoopRaise ==
    /\ pc = "try"
    /\ \E exception \in CycleExceptions :
        pc' = IF except_Exception(exception) THEN "wait" ELSE "done"
    /\ interval' = sleep_interval(FALSE)
    /\ cycle_raised' = TRUE
    /\ polled' = <<>>
    /\ log' = <<>>
    /\ UNCHANGED <<today, state, dirty, file, close_game_cooldowns, feed, disk,
                   delivered, close_age, commit_failed, returned,
                   stop_event, slept, cycle_vars, request_vars>>

\* stop_event.wait(interval) returns because the interval has passed
LoopTimeout ==
    /\ pc = "wait"
    /\ ~stop_event
    /\ pc' = "while"
    /\ slept' = TRUE
    /\ UNCHANGED <<today, state, dirty, file, close_game_cooldowns, feed, disk, polled, log,
                   delivered, close_age, commit_failed, returned,
                   stop_event, interval, cycle_raised, cycle_vars, request_vars>>

\* stop_event.wait(interval) returns because the event is set
LoopWoken ==
    /\ pc = "wait"
    /\ stop_event
    /\ pc' = "while"
    /\ slept' = FALSE
    /\ UNCHANGED <<today, state, dirty, file, close_game_cooldowns, feed, disk, polled, log,
                   delivered, close_age, commit_failed, returned,
                   stop_event, interval, cycle_raised, cycle_vars, request_vars>>

\* signal_handler: SIGINT arrives
SetStop ==
    /\ pc # "done"
    /\ ~stop_event
    /\ stop_event' = TRUE
    /\ UNCHANGED <<today, state, dirty, file, close_game_cooldowns, feed, disk, polled, log,
                   delivered, close_age, commit_failed, returned,
                   pc, interval, slept, cycle_raised, cycle_vars, request_vars>>

NextLoop == LoopTest \/ LoopCheckGames \/ LoopRaise \/ LoopTimeout \/ LoopWoken \/ SetStop

SpecLoop == InitLoop /\ [][NextLoop]_vars

\* the thread of run_continuous keeps running: every step of the loop that can be
\* taken is taken
SpecLoopFair ==
    /\ SpecLoop
    /\ WF_vars(LoopTest)
    /\ WF_vars(LoopCheckGames \/ LoopRaise)
    /\ WF_vars(LoopTimeout)
    /\ WF_vars(LoopWoken)

-----------------------------------------------------------------------------
(* check_games statement by statement, with the tasks of                   *)
(* _enrich_games_parallel running beside it.                               *)

first_completed(f) == \E t \in DOMAIN f : f[t].state = "done"

none_awaited(f) == TRUE

\* the with block of _enrich_games_parallel is left when as_completed has yielded
\* every future and the executor has shut down
all_completed(f) == \A t \in DOMAIN f : f[t].state = "done"

InitEnrich == Init /\ feed \in {Feed.Milestone, Feed.Night, Feed.Idle} /\ disk = "reliable"

\* games = self.api.get_todays_games(), the early return, the three comprehensions
EnrichFetch ==
    /\ at = "return"
    /\ \A g \in DOMAIN state.games : Len(state.games[g].close_game_alerts) < MaxCloseAlerts
    /\ \E data \in Polls :
        /\ polled' = data
        /\ cycle_games' = [i \in 1..Len(data) |-> from_schedule_api(data[i])]
        /\ futures' = <<>>
        /\ at' = IF data = <<>> THEN "return" ELSE "starts"
    /\ log' = <<>>
    /\ UNCHANGED <<today, state, dirty, file, close_game_cooldowns, feed, disk,
                   delivered, close_age, commit_failed, returned, loop_vars, request_vars>>

\* for game in in_progress: self._handle_game_start(game)
EnrichStarts ==
    /\ at = "starts"
    /\ \E sv \in handle_game_starts({Service}, SelectSeq(cycle_games, in_progress_test)) :
        /\ state' = sv.state
        /\ dirty' = sv.dirty
        /\ file' = sv.file
        /\ commit_failed' = sv.commit_failed
        /\ log' = log \o sv.log
        /\ delivered' = Count(delivered, sv.log)
    /\ at' = "submit"
    /\ UNCHANGED <<today, close_game_cooldowns, feed, disk, polled, close_age, returned,
                   loop_vars, request_vars, futures, cycle_games>>

\* games_to_enrich = in_progress + [g for g in finished if not final_posted], as
\* positions in the games list: a game on both lists is on it twice
games_to_enrich(sv, games) ==
    LET positions == [i \in 1..Len(games) |-> i]
    IN  SelectSeq(positions, LAMBDA i : in_progress_test(games[i]))
        \o SelectSeq(positions, LAMBDA i : /\ is_final(games[i])
                                           /\ ~StateOf(sv, games[i].game_id).final_posted)

\* games_to_enrich, and executor.submit for each entry of it
EnrichSubmit ==
    /\ at = "submit"
    /\ LET sv == get_games(Service, SelectSeq(cycle_games, is_final))
           entries == games_to_enrich(sv, cycle_games)
       IN  /\ state' = sv.state
           /\ dirty' = sv.dirty
           /\ futures' = [t \in 1..Len(entries) |-> [game |-> entries[t], state |-> "submitted"]]
    /\ at' = "join"
    /\ UNCHANGED <<today, file, close_game_cooldowns, feed, disk, polled, log, delivered,
                   close_age, commit_failed, returned, loop_vars, request_vars, cycle_games>>

\* a worker of the pool runs api.enrich_game_with_boxscore(game) for task t.  Two
\* tasks of one Game object write the same fields from the same boxscore, so every
\* interleaving of their writes leaves the object as one of them alone leaves it
TaskRun(t) ==
    /\ t \in DOMAIN futures
    /\ futures[t].state = "submitted"
    /\ futures' = [futures EXCEPT ![t].state = "done"]
    /\ cycle_games' = [cycle_games EXCEPT ![futures[t].game] = enrich_game_with_boxscore(@)]
    /\ UNCHANGED <<today, state, dirty, file, close_game_cooldowns, feed, disk, polled, log,
                   delivered, close_age, commit_failed, returned, loop_vars, request_vars, at>>

\* _enrich_games_parallel returns
EnrichJoin ==
    /\ at = "join"
    /\ all_completed(futures)
    /\ at' = "process"
    /\ UNCHANGED <<today, state, dirty, file, close_game_cooldowns, feed, disk, polled, log,
                   delivered, close_age, commit_failed, returned, loop_vars, request_vars, futures,
                   cycle_games>>

\* the two processing loops, _update_cooldowns, _check_end_of_night, return
EnrichProcess ==
    /\ at = "process"
    /\ \E sv \in process_games(Service, cycle_games) :
        /\ state' = sv.state
        /\ dirty' = sv.dirty
        /\ file' = sv.file
        /\ commit_failed' = sv.commit_failed
        /\ close_game_cooldowns' = sv.cooldowns
        /\ log' = log \o sv.log
        /\ delivered' = Count(delivered, sv.log)
        /\ close_age' = [g \in GameIds |->
                           IF Emitted(sv.log, g, "close_game") THEN 0
                           ELSE IF close_age[g] < MaxAge THEN close_age[g] + 1 ELSE MaxAge]
    /\ at' = "return"
    /\ UNCHANGED <<today, feed, disk, polled, returned, loop_vars, request_vars, futures, cycle_games>>

NextEnrich ==
    \/ EnrichFetch
    \/ EnrichStarts
    \/ EnrichSubmit
    \/ \E t \in DOMAIN futures : TaskRun(t)
    \/ EnrichJoin
    \/ EnrichProcess

SpecEnrich == InitEnrich /\ [][NextEnrich]_vars

-----------------------------------------------------------------------------
(* The GameMonitor called on Game objects of every shape, beside the poll  *)
(* cycle that calls it.                                                    *)

\* Game objects: every combination of status, status text, period, clock and score
GameInputs ==
    { [game_id |-> "g1", status |-> status, status_text |-> status_text, period |-> period,
       clock |-> clock, home_score |-> score[1], away_score |-> score[2],
       home_players |-> <<>>, away_players |-> <<>>, boxscore |-> <<>>] :
        status \in {NOT_STARTED, IN_PROGRESS, FINISHED},
        status_text \in {Text.empty, Text.Halftime, Text.FinalOT, Text.EndOfQ1, Text.EndOfQ3,
                         Text.EndOfQ4, Text.EndOfOT, Text.Q4},
        period \in {2, 4, 5},
        clock \in {Text.empty, Text.clock_0_00, Text.clock_0_0, Text.clock_5_32,
                   <<" ">> \o Text.clock_0_00 \o <<" ">>},
        score \in {<<100, 100>>, <<100, 95>>, <<95, 101>>} }

\* Player objects: categories below 7, in 7..9 and at 10 or more
PlayerInputs ==
    { [name |-> "A", played |-> played,
       stats |-> [points |-> points, rebounds |-> rebounds, assists |-> assists,
                  steals |-> steals, blocks |-> blocks]] :
        played \in BOOLEAN, points \in {3, 8, 12, 41}, rebounds \in {3, 11},
        assists \in {3, 8, 10}, steals \in {1, 7, 10}, blocks \in {0, 10} }

\* the Game object at hand is any of GameInputs, or a game under way with a player
\* of PlayerInputs on the home team or on the away team; the schedule holds that
\* game alone, and no boxscore for it
InitDetect ==
    /\ Constructs
    /\ disk = "reliable"
    /\ \E game \in GameInputs \cup
            UNION { { [from_schedule_api(Schedule("g1").TripleDouble) EXCEPT
                          !.home_players = <<player, Bench>>],
                      [from_schedule_api(Schedule("g1").TripleDouble) EXCEPT
                          !.home_players = <<Bench>>, !.away_players = <<player>>] } :
                    player \in PlayerInputs } :
        /\ cycle_games = <<game>>
        /\ feed = [g \in GameIds |->
                     IF g = "g1"
                     THEN {<<Snapshot(g, game.status, game.status_text, game.period, game.clock,
                                      game.home_score, game.away_score, <<>>)>>}
                     ELSE {<<>>}]

CallDetectQuarterEnd ==
    /\ returned' = Returned("detect_quarter_end", <<cycle_games[1]>>,
                            <<detect_quarter_end(cycle_games[1])>>, None)
    /\ UNCHANGED <<today, state, dirty, file, close_game_cooldowns, feed, disk, polled, log,
                   delivered, close_age, commit_failed, loop_vars, cycle_vars, request_vars>>

CallIsHalftime ==
    /\ returned' = Returned("is_halftime", <<cycle_games[1]>>,
                            <<is_halftime(cycle_games[1])>>, None)
    /\ UNCHANGED <<today, state, dirty, file, close_game_cooldowns, feed, disk, polled, log,
                   delivered, close_age, commit_failed, loop_vars, cycle_vars, request_vars>>

CallIsFinal ==
    /\ returned' = Returned("is_final", <<cycle_games[1]>>, <<is_final(cycle_games[1])>>, None)
    /\ UNCHANGED <<today, state, dirty, file, close_game_cooldowns, feed, disk, polled, log,
                   delivered, close_age, commit_failed, loop_vars, cycle_vars, request_vars>>

CallDetectCloseGame ==
    /\ returned' = Returned("detect_close_game", <<cycle_games[1]>>,
                            <<detect_close_game(cycle_games[1])>>, None)
    /\ UNCHANGED <<today, state, dirty, file, close_game_cooldowns, feed, disk, polled, log,
                   delivered, close_age, commit_failed, loop_vars, cycle_vars, request_vars>>

CallDetectPerformanceAlerts ==
    /\ returned' = Returned("detect_performance_alerts", <<cycle_games[1]>>,
                            <<detect_performance_alerts(cycle_games[1])>>, None)
    /\ UNCHANGED <<today, state, dirty, file, close_game_cooldowns, feed, disk, polled, log,
                   delivered, close_age, commit_failed, loop_vars, cycle_vars, request_vars>>

NextDetect ==
    \/ CallDetectQuarterEnd
    \/ CallIsHalftime
    \/ CallIsFinal
    \/ CallDetectCloseGame
    \/ CallDetectPerformanceAlerts
    \/ CheckGames

SpecDetect == InitDetect /\ [][NextDetect]_vars

-----------------------------------------------------------------------------
(* NBAApiClient._request_with_retry, one statement at a time.              *)

\* what one self.session.get can do: raise before any response (Timeout,
\* ConnectionError), or answer with a status code and a body; a body is <<the
\* object it encodes>>, or <<>> when it is not JSON
GetOutcomes ==
    { [raised |-> e, status_code |-> 0, body |-> <<>>] : e \in {"Timeout", "ConnectionError"} }
    \cup { [raised |-> None, status_code |-> c, body |-> <<>>] : c \in {200, 404, 429, 500} }
    \cup { [raised |-> None, status_code |-> 200, body |-> <<j>>] :
             j \in { [rollingSchedule |-> [gameDates |-> <<>>]], [game |-> <<>>] } }

\* the exception classes except requests.RequestException catches
RequestException == {"Timeout", "ConnectionError", "HTTPError", "JSONDecodeError"}

\* the try block on one outcome of session.get: what it returns or raises.
\* raise_for_status raises HTTPError for a 4xx or 5xx code; response.json() of a
\* body that is not JSON raises requests' JSONDecodeError in requests 2.27 and
\* later and a plain ValueError before
try_request(o) ==
    IF o.raised # None
    THEN {[value |-> <<>>, raised |-> o.raised]}
    ELSE IF o.status_code >= 400 /\ o.status_code < 600
    THEN {[value |-> <<>>, raised |-> "HTTPError"]}
    ELSE IF o.body = <<>>
    THEN {[value |-> <<>>, raised |-> "JSONDecodeError"], [value |-> <<>>, raised |-> "ValueError"]}
    ELSE {[value |-> o.body, raised |-> None]}

\* a retry loop that never takes the last-attempt branch
no_last_attempt(k) == FALSE

\* if attempt == self.MAX_RETRIES - 1
is_last_attempt(k) == k = MAX_RETRIES - 1

\* wait_time = 2**attempt
wait_time(k) == 2 ^ k

InitRetry == Init /\ feed = Feed.Idle /\ disk = "reliable"

\* the call: for attempt in range(self.MAX_RETRIES) begins
RequestCall ==
    /\ request_at = None
    /\ request_at' = "get"
    /\ attempt' = 0
    /\ gets' = <<>>
    /\ wait_times' = <<>>
    /\ UNCHANGED <<today, state, dirty, file, close_game_cooldowns, feed, disk, polled, log,
                   delivered, close_age, commit_failed, returned, loop_vars, cycle_vars>>

\* the try block and the except clause of one attempt
RequestGet ==
    /\ request_at = "get"
    /\ \E o \in GetOutcomes : \E r \in try_request(o) :
        /\ gets' = Append(gets, r)
        /\ IF r.raised = None
           THEN /\ returned' = Returned("_request_with_retry", <<>>, r.value, None)
                /\ request_at' = None
           ELSE IF r.raised \notin RequestException
           THEN /\ returned' = Returned("_request_with_retry", <<>>, <<>>, r.raised)
                /\ request_at' = None
           ELSE IF is_last_attempt(attempt)
           THEN /\ returned' = Returned("_request_with_retry", <<>>, <<None>>, None)
                /\ request_at' = None
           ELSE /\ request_at' = "sleep"
                /\ UNCHANGED returned
    /\ UNCHANGED <<today, state, dirty, file, close_game_cooldowns, feed, disk, polled, log,
                   delivered, close_age, commit_failed, loop_vars, cycle_vars, attempt,
                   wait_times>>

\* sleep(wait_time) and the next round of the loop; return None when the range is
\* exhausted
RequestSleep ==
    /\ request_at = "sleep"
    /\ wait_times' = Append(wait_times, wait_time(attempt))
    /\ IF attempt + 1 < MAX_RETRIES
       THEN /\ attempt' = attempt + 1
            /\ request_at' = "get"
            /\ UNCHANGED returned
       ELSE /\ returned' = Returned("_request_with_retry", <<>>, <<None>>, None)
            /\ request_at' = None
            /\ UNCHANGED attempt
    /\ UNCHANGED <<today, state, dirty, file, close_game_cooldowns, feed, disk, polled, log,
                   delivered, close_age, commit_failed, loop_vars, cycle_vars, gets>>

NextRetry == RequestCall \/ RequestGet \/ RequestSleep

SpecRetry == InitRetry /\ [][NextRetry]_vars

-----------------------------------------------------------------------------
(* Reading a state for the properties.                                     *)

\* what state.get_game(g) would hand out from the DailyState st
GameStateOf(st, g) == IF g \in DOMAIN st.games THEN st.games[g] ELSE GameState(g)

\* the game g of a games list p as the alert handlers of an in-progress game see it:
\* <<>> when g is not in the list, else <<the enriched Game>>
Observed(p, g) ==
    LET on == SelectSeq(p, LAMBDA d : d.game_id = g)
    IN  IF on = <<>> THEN <<>> ELSE <<enrich_game_with_boxscore(from_schedule_api(on[1]))>>

\* the games list p puts g on the in_progress list
InProgressIn(p, g) == Observed(p, g) # <<>> /\ in_progress_test(Observed(p, g)[1])

\* the games list p puts g on the finished list
FinishedIn(p, g) == Observed(p, g) # <<>> /\ is_final(Observed(p, g)[1])

OneShotKinds == {"halftime", "final", "triple_double", "triple_double_watch", "high_scorer"}

-----------------------------------------------------------------------------
(* C1: one-shot notifications are delivered at most once.                  *)

\* C1: as long as every write of the state file has succeeded, no game has had its
\* HALFTIME notification, its FINAL notification or any one performance alert
\* (player name, alert kind) delivered more than once, over any sequence of poll cycles
\* and restarts within the day.
C1_AtMostOnce ==
    commit_failed = FALSE =>
        \A k \in DOMAIN delivered : k[2] \in OneShotKinds => delivered[k] <= 1

\* a second halftime poll after the halftime notification went out, and no second call
C1_Witness ==
    /\ commit_failed = FALSE
    /\ Delivered(<<"g1", "halftime", "">>) = 1
    /\ Observed(polled, "g1") # <<>>
    /\ is_halftime(Observed(polled, "g1")[1])
    /\ ~Attempted(log, "g1", "halftime")

-----------------------------------------------------------------------------
(* C2, C3: marking halftime and final against the notifier's answer.       *)

\* C2: halftime is recorded as posted only in a poll cycle in which the notifier
\* reported success for the halftime message, and a cycle whose halftime call failed
\* leaves the game's state as it was.
C2_HalftimeMarkedOnlyOnSuccess ==
    [][\A g \in GameIds :
          /\ (GameStateOf(state', g).halftime_posted /\ ~GameStateOf(state, g).halftime_posted)
                => Emitted(log', g, "halftime")
          /\ (Attempted(log', g, "halftime") /\ ~Emitted(log', g, "halftime"))
                => GameStateOf(state', g).halftime_posted = GameStateOf(state, g).halftime_posted
      ]_vars

\* C3: final is recorded as posted only in a poll cycle in which the notifier reported
\* success for the final message, and a cycle whose final call failed leaves final
\* unrecorded.
C3_FinalMarkedOnlyOnSuccess ==
    [][\A g \in GameIds :
          /\ (GameStateOf(state', g).final_posted /\ ~GameStateOf(state, g).final_posted)
                => Emitted(log', g, "final")
          /\ (Attempted(log', g, "final") /\ ~Emitted(log', g, "final"))
                => GameStateOf(state', g).final_posted = GameStateOf(state, g).final_posted
      ]_vars

-----------------------------------------------------------------------------
(* C4, C5: game start.                                                     *)

\* C4: game start is at-least-once. In every poll cycle, for every game: if the game is
\* on the in_progress list and GAME_STARTED is not recorded, the start notification is
\* attempted; if the attempt fails, GAME_STARTED stays unset and no thread handle is
\* recorded; if it succeeds, GAME_STARTED and the thread handle are recorded together;
\* and once GAME_STARTED is recorded no start notification is attempted.
C4_GameStartAtLeastOnce ==
    [][\A g \in GameIds :
          LET before == GameStateOf(state, g)
              after == GameStateOf(state', g)
          IN  /\ (InProgressIn(polled', g) /\ ~before.game_started_posted)
                    => Attempted(log', g, "game_start")
              /\ (Attempted(log', g, "game_start") /\ ~Emitted(log', g, "game_start"))
                    => (~after.game_started_posted /\ after.thread_ts = None)
              /\ Emitted(log', g, "game_start")
                    => (after.game_started_posted /\ after.thread_ts # None)
              /\ before.game_started_posted => ~Attempted(log', g, "game_start")
      ]_vars

\* a start call that failed and left the game unmarked, to be retried
C4_Witness ==
    /\ Attempted(log, "g1", "game_start")
    /\ ~Emitted(log, "g1", "game_start")
    /\ ~GameStateOf(state, "g1").game_started_posted
    /\ GameStateOf(state, "g1").thread_ts = None

\* C5 as claimed: a game without GAME_STARTED that a poll cycle observes with
\* status != NOT_STARTED gets a start notification in that cycle.
C5_StartOnAnyStatusButNotStarted ==
    [][\A g \in GameIds :
          (/\ Observed(polled', g) # <<>>
           /\ Observed(polled', g)[1].status # NOT_STARTED
           /\ ~GameStateOf(state, g).game_started_posted)
             => Attempted(log', g, "game_start")
      ]_vars

\* C5 amended: a game without GAME_STARTED that a poll cycle observes with status
\* IN_PROGRESS gets a start notification in that cycle; a game observed FINISHED gets
\* none.
C5_StartOnInProgress ==
    [][\A g \in GameIds :
          /\ (/\ Observed(polled', g) # <<>>
              /\ Observed(polled', g)[1].status = IN_PROGRESS
              /\ ~GameStateOf(state, g).game_started_posted)
                => Attempted(log', g, "game_start")
          /\ (Observed(polled', g) # <<>> /\ Observed(polled', g)[1].status = FINISHED)
                => ~Attempted(log', g, "game_start")
      ]_vars

\* a game seen for the first time when it is already finished: final goes out, start does not
C5_Witness ==
    /\ Observed(polled, "g1") # <<>>
    /\ Observed(polled, "g1")[1].status = FINISHED
    /\ ~GameStateOf(state, "g1").game_started_posted
    /\ Attempted(log, "g1", "final")
    /\ ~Attempted(log, "g1", "game_start")

-----------------------------------------------------------------------------
(* C6, C7: the close-game cooldown.                                        *)

\* C6: within one process, after a close-game alert went out for a game in poll cycle N,
\* no close-game alert goes out for that game in the poll cycles N+1 .. N+4: an alert
\* goes out only when at least 4 poll cycles have been completed since the cycle of the
\* last one.
C6_NoCloseAlertWithinCooldown ==
    [][\A g \in GameIds :
          Emitted(log', g, "close_game") => close_age[g] >= CLOSE_GAME_ALERT_COOLDOWN_POLLS
      ]_vars

\* C7: the cooldown outlives the process. A close-game alert goes out only when the
\* cycles the cooldown suppresses (as the running process counts them: the 3 cycles
\* after the alert's own) have been completed since the last alert, whether or not the
\* process was restarted in between.
C7_CooldownSurvivesRestart ==
    [][\A g \in GameIds :
          Emitted(log', g, "close_game") => close_age[g] >= CLOSE_GAME_ALERT_COOLDOWN_POLLS - 1
      ]_vars

-----------------------------------------------------------------------------
(* C8: performance alerts are one-shot per (player name, alert kind).      *)

\* the player of `alert` has some other kind on record in game_state
OtherKindPosted(game_state, alert) ==
    \E i \in 1..Len(game_state.performance_alerts) :
        /\ game_state.performance_alerts[i][1] = alert.name
        /\ game_state.performance_alerts[i][2] # alert.alert_type

\* (player name, kind) of `alert` is on record in game_state
OnRecord(game_state, alert) ==
    \E i \in 1..Len(game_state.performance_alerts) :
        /\ game_state.performance_alerts[i][1] = alert.name
        /\ game_state.performance_alerts[i][2] = alert.alert_type

CalledFor(l, g, alert) ==
    \E i \in 1..Len(l) : l[i].game_id = g /\ l[i].kind = alert.alert_type /\ l[i].name = alert.name

\* C8: in every poll cycle, for every performance alert the cycle detects for an
\* in-progress game: if that (player name, kind) is on record the notifier is not called
\* for it; if it is not on record while another kind is on record for the same player,
\* the notifier is called for it.
C8_PerformanceAlertPerPlayerAndKind ==
    [][\A g \in GameIds :
          InProgressIn(polled', g) =>
              LET alerts == detect_performance_alerts(Observed(polled', g)[1])
                  before == GameStateOf(state, g)
              IN  \A i \in 1..Len(alerts) :
                      /\ OnRecord(before, alerts[i]) => ~CalledFor(log', g, alerts[i])
                      /\ (~OnRecord(before, alerts[i]) /\ OtherKindPosted(before, alerts[i]))
                            => CalledFor(log', g, alerts[i])
      ]_vars

\* player A's triple-double is on record; the poll shows it again next to A's 41 points:
\* high_scorer is sent for A, triple_double is not sent again
C8_Witness ==
    /\ Delivered(<<"g1", "triple_double", "A">>) = 1
    /\ InProgressIn(polled, "g1")
    /\ \E i \in 1..Len(detect_performance_alerts(Observed(polled, "g1")[1])) :
          detect_performance_alerts(Observed(polled, "g1")[1])[i]
              = [name |-> "A", alert_type |-> "triple_double"]
    /\ CalledFor(log, "g1", [name |-> "A", alert_type |-> "high_scorer"])
    /\ ~CalledFor(log, "g1", [name |-> "A", alert_type |-> "triple_double"])

-----------------------------------------------------------------------------
(* C9: the end-of-night summary.                                           *)

AllFinished(p) == p # <<>> /\ \A i \in 1..Len(p) : p[i].status = FINISHED

EndOfNightKey == <<"", "end_of_night", "">>

\* C9: the end-of-night summary is sent only in a poll cycle whose games list is
\* non-empty with every game FINISHED and the day's flag unset; every such cycle sends
\* it; the flag is set only in a cycle whose send succeeded, and a failed send leaves it
\* unset; and while every write of the state file has succeeded the summary has been
\* delivered at most once.
C9_EndOfNightOnce ==
    [][/\ Attempted(log', "", "end_of_night")
            => (AllFinished(polled') /\ ~state.end_of_night_posted)
       /\ (AllFinished(polled') /\ ~state.end_of_night_posted)
            => Attempted(log', "", "end_of_night")
       /\ (state'.end_of_night_posted /\ ~state.end_of_night_posted)
            => Emitted(log', "", "end_of_night")
       /\ (Attempted(log', "", "end_of_night") /\ ~Emitted(log', "", "end_of_night"))
            => ~state'.end_of_night_posted
       /\ commit_failed' = FALSE
            => (IF EndOfNightKey \in DOMAIN delivered' THEN delivered'[EndOfNightKey] ELSE 0) <= 1
      ]_vars

\* the summary is out, and a later poll with every game FINISHED does not send it again
C9_Witness ==
    /\ Delivered(EndOfNightKey) = 1
    /\ Len(polled) = 2
    /\ AllFinished(polled)
    /\ ~Attempted(log, "", "end_of_night")
    /\ state.end_of_night_posted

-----------------------------------------------------------------------------
(* C10: idempotence.                                                       *)

SnapshotOf(p, g) == SelectSeq(p, LAMBDA d : d.game_id = g)

\* the poll cycle that ends here was given for g the snapshot the cycle before it was
\* given, and that cycle's notifier calls for g all succeeded and its writes were done
FedTwice(g) ==
    /\ SnapshotOf(polled, g) # <<>>
    /\ SnapshotOf(polled', g) = SnapshotOf(polled, g)
    /\ \A i \in 1..Len(log) : log[i].game_id = g => log[i].ok
    /\ commit_failed' = FALSE

\* C10 as claimed: a game's snapshot fed in two consecutive poll cycles, the durable
\* state updated after the first, gives no notifier call for the game in the second; and
\* a whole games list fed twice gives no end-of-night call in the second.
C10_SecondCycleSilent ==
    [][/\ \A g \in GameIds :
             FedTwice(g) => \A i \in 1..Len(log') : log'[i].game_id # g
       /\ (/\ polled' = polled
           /\ \A g \in GameIds : SnapshotOf(polled, g) # <<>> => FedTwice(g)
           /\ \A i \in 1..Len(log) : log[i].ok)
             => ~Attempted(log', "", "end_of_night")
      ]_vars

\* C10 amended: as claimed, but for close-game alerts: the second cycle makes no
\* game-start, halftime, final or performance call for the game and no end-of-night
\* call; it may make a close-game call (the cooldown of the alert before has run out).
C10_SecondCycleSilentButCloseGame ==
    [][/\ \A g \in GameIds :
             FedTwice(g) => \A i \in 1..Len(log') : log'[i].game_id = g => log'[i].kind = "close_game"
       /\ (/\ polled' = polled
           /\ \A g \in GameIds : SnapshotOf(polled, g) # <<>> => FedTwice(g)
           /\ \A i \in 1..Len(log) : log[i].ok)
             => ~Attempted(log', "", "end_of_night")
      ]_vars

\* a poll that shows halftime for a started game whose halftime is out makes no call
C10_Witness ==
    /\ InProgressIn(polled, "g1")
    /\ is_halftime(Observed(polled, "g1")[1])
    /\ Delivered(<<"g1", "game_start", "">>) = 1
    /\ Delivered(<<"g1", "halftime", "">>) = 1
    /\ log = <<>>
    /\ commit_failed = FALSE

-----------------------------------------------------------------------------
(* C11: the quarter-end milestones 1 and 3.                                *)

\* C11: in every poll cycle, for every in-progress game whose snapshot shows the end of
\* the first or the third quarter (detect_quarter_end gives 1 or 3) while that period is
\* not among the game's posted quarters, the notifier is called with a quarter-end
\* message for the game.
C11_QuarterEndEmitted ==
    [][\A g \in GameIds :
          (/\ InProgressIn(polled', g)
           /\ detect_quarter_end(Observed(polled', g)[1]) \in {<<1>>, <<3>>}
           /\ ~InSeq(detect_quarter_end(Observed(polled', g)[1])[1],
                     GameStateOf(state, g).posted_quarters))
             => Attempted(log', g, "quarter_end")
      ]_vars

-----------------------------------------------------------------------------
(* C12 - C15: the state store.                                             *)

\* the file holds an object with the keys from_dict requires
WellFormed(f) == f # <<>> /\ IsObject(f[1]) /\ ~from_dict_raises(f[1])

\* C12: whenever a StateManager is constructed on a file that holds a record of another
\* date, construction succeeds and the store is DailyState(today): no game record and
\* end_of_night_posted false.
C12_LoadDiscardsOtherDay ==
    [][(StoreRestart /\ WellFormed(file) /\ file[1].date # today)
          => (returned'.raised = None /\ state' = DailyState(today))
      ]_vars

\* a process started after midnight on yesterday's file, which held a game and the
\* end-of-night flag
C12_Witness ==
    /\ returned.op = "__init__"
    /\ returned.raised = None
    /\ WellFormed(file)
    /\ file[1].date # today
    /\ DOMAIN file[1].games # {}
    /\ file[1].end_of_night_posted
    /\ state = DailyState(today)

\* C13: the first call on the StateManager after the date has advanced past the store's
\* date, whichever method it is, works on a store reinitialized for today: after it the
\* store's date is today, get_game has returned a new GameState, is_end_of_night_posted
\* has returned false, get_all_game_states has returned no game, and the end-of-night
\* flag is set only if the call was mark_end_of_night_posted.
C13_FirstAccessAfterMidnight ==
    [][(Constructed /\ state.date # today /\ StoreAccess)
          => /\ state'.date = today
             /\ returned'.op = "get_game" => returned'.value = <<GameState(returned'.arg[1])>>
             /\ returned'.op = "is_end_of_night_posted" => returned'.value = <<FALSE>>
             /\ returned'.op = "get_all_game_states" => DOMAIN returned'.value[1] = {}
             /\ returned'.op # "mark_end_of_night_posted" => ~state'.end_of_night_posted
      ]_vars

\* the file holds a record that from_dict accepts and whose date is today
ValidForToday(f) == WellFormed(f) /\ f[1].date = today

\* C14: constructing a StateManager never raises, whatever the state file holds, and
\* unless the file holds a valid record for today the store is DailyState(today).
C14_LoadNeverFails ==
    [][StoreRestart
          => /\ returned'.raised = None
             /\ ~ValidForToday(file) => state' = DailyState(today)
      ]_vars

-----------------------------------------------------------------------------
(* C16: a game whose boxscore is absent.                                   *)

\* get_boxscore answered None for g in the poll p
BoxscoreAbsent(p, g) == SnapshotOf(p, g) # <<>> /\ SnapshotOf(p, g)[1].boxscore = <<>>

\* C16: in every poll cycle, a game whose boxscore is absent gets no halftime, final,
\* close-game or performance notification, and its posted milestones and alerts (the
\* halftime and final flags, the posted quarters, the close-game handles and the
\* performance-alert keys) are after the cycle what they were before it.
C16_NoBoxscoreSkipsGame ==
    [][\A g \in GameIds :
          BoxscoreAbsent(polled', g)
             => /\ \A i \in 1..Len(log') :
                      log'[i].game_id = g => log'[i].kind = "game_start"
                /\ GameStateOf(state', g).halftime_posted = GameStateOf(state, g).halftime_posted
                /\ GameStateOf(state', g).final_posted = GameStateOf(state, g).final_posted
                /\ GameStateOf(state', g).posted_quarters = GameStateOf(state, g).posted_quarters
                /\ GameStateOf(state', g).close_game_alerts = GameStateOf(state, g).close_game_alerts
                /\ GameStateOf(state', g).performance_alerts = GameStateOf(state, g).performance_alerts
      ]_vars


C18_StopEndsLoop ==
    /\ [][stop_event =>
            /\ stop_event'
            /\ (pc = "try" => pc' \in {"try", "wait"})
            /\ (pc # "try" => pc' # "try")
            /\ (pc = "wait" /\ pc' # "wait" => pc' = "while" /\ ~slept')
            /\ (pc = "while" /\ pc' # "while" => pc' = "done")]_vars
    /\ (stop_event ~> pc = "done")

\* the loop has ended after a cycle with games that chose the idle interval, and
\* the wait did not last it
C18_Witness ==
    /\ pc = "done"
    /\ stop_event
    /\ polled # <<>>
    /\ interval = poll_interval_idle
    /\ ~slept

\* C19: a cycle that raises is followed by the wait, the wait by the loop
\* condition, and the loop condition by another cycle unless the stop event is
\* set; the loop ends only with the stop event set.
C19_RaisingCycleDoesNotEndLoop ==
    [][/\ (pc = "try" /\ pc' # "try" /\ cycle_raised' => pc' = "wait")
       /\ (pc = "wait" /\ pc' # "wait" => pc' = "while")
       /\ (pc = "while" /\ pc' # "while" /\ ~stop_event => pc' = "try")
       /\ (pc # "done" /\ pc' = "done" => stop_event)]_vars

\* a cycle has begun after one that raised
C19_Witness ==
    /\ pc = "try"
    /\ cycle_raised
    /\ ~stop_event


\* a task of the i-th game of the cycle has been submitted and has finished
Enriched(i) == \E t \in DOMAIN futures : futures[t].game = i /\ futures[t].state = "done"

\* C20 as stated: whenever check_games takes a game-start decision for a game, or
\* goes through its halftime, final, close-game, performance and end-of-night
\* decisions, the enrichment task of every game of games_to_enrich has finished.
C20_JoinedBeforeAnyDecision ==
    [][/\ (at = "starts" /\ at' = "submit"
            => \A i \in DOMAIN cycle_games : in_progress_test(cycle_games[i]) => Enriched(i))
       /\ (at = "process" /\ at' = "return"
            => \A t \in DOMAIN futures : Enriched(futures[t].game))]_vars

\* C20 amended: whenever check_games goes through its halftime, final, close-game,
\* performance and end-of-night decisions, every task that was submitted in the
\* cycle has finished, and a game start is decided with no task submitted yet.
C20_JoinedBeforeProcessing ==
    [][/\ (at = "starts" /\ at' = "submit"
            => futures = <<>>)
       /\ (at = "process" /\ at' = "return"
            => \A t \in DOMAIN futures : futures[t].state = "done")]_vars

\* two tasks ran side by side and both have finished when the processing begins,
\* in a cycle whose game start went out before either was submitted
C20_Witness ==
    /\ at = "process"
    /\ Len(cycle_games) = 2
    /\ Len(futures) = 2
    /\ \A t \in DOMAIN futures : futures[t].state = "done"
    /\ \A i \in DOMAIN cycle_games : cycle_games[i].home_players # <<>>
    /\ Emitted(log, "g1", "game_start")


\* C21: while the task of some game of the cycle is submitted and has not finished,
\* no step creates or changes the DailyState or a GameState in it.
C21_NoWriteWhileTaskRuns ==
    [][(\E t \in DOMAIN futures : futures[t].state = "submitted") => state' = state]_vars

\* one task has finished and the other is still running; the GameState of the
\* game that started was written earlier in the cycle, before either was submitted
C21_Witness ==
    /\ at = "join"
    /\ \E t, u \in DOMAIN futures : futures[t].state = "submitted" /\ futures[u].state = "done"
    /\ Emitted(log, "g1", "game_start")
    /\ "g1" \in DOMAIN state.games /\ state.games["g1"].game_started_posted


\* C22: is_halftime returns true exactly when the period is 2 and the stripped
\* clock is empty, "0:00" or "0:0", or the status text contains "Half"; so period 2
\* with clock "0:00" and an empty text gives true, and period 2 with clock "5:32"
\* and no "Half" in the text gives false.
C22_IsHalftime ==
    returned.op = "is_halftime" =>
        LET game == returned.arg[1]
            by_clock == game.period = 2
                        /\ Strip(game.clock) \in {<<>>, <<"0",":","0","0">>, <<"0",":","0">>}
            by_text == Contains(<<"H","a","l","f">>, game.status_text)
        IN  /\ returned.value[1] = (by_clock \/ by_text)
            /\ (game.period = 2 /\ game.clock = <<"0",":","0","0">> /\ game.status_text = <<>>
                  => returned.value[1] = TRUE)
            /\ (game.period = 2 /\ game.clock = <<"5",":","3","2">> /\ ~by_text
                  => returned.value[1] = FALSE)

\* is_halftime has returned true on the clock alone, the clock being padded
C22_Witness ==
    /\ returned.op = "is_halftime"
    /\ returned.arg[1].period = 2
    /\ returned.arg[1].clock = <<" ","0",":","0","0"," ">>
    /\ returned.arg[1].status_text = <<>>
    /\ returned.value[1] = TRUE

\* C23: is_final returns true exactly when the status is FINISHED, or the status
\* text contains "Final", or the text contains "End of Q4" and the score is not
\* tied; and a cycle that polls a game in progress with the text "End of Q4" and a
\* tied score sends no final notification for it.
C23_IsFinal ==
    /\ returned.op = "is_final" =>
        LET game == returned.arg[1]
        IN  returned.value[1] =
                (\/ game.status = FINISHED
                 \/ Contains(<<"F","i","n","a","l">>, game.status_text)
                 \/ /\ Contains(<<"E","n","d"," ","o","f"," ","Q","4">>, game.status_text)
                    /\ game.home_score # game.away_score)
    /\ \A i \in 1..Len(polled) :
        (/\ polled[i].status = IN_PROGRESS
         /\ polled[i].status_text = <<"E","n","d"," ","o","f"," ","Q","4">>
         /\ polled[i].home_score = polled[i].away_score)
        => ~Attempted(log, polled[i].game_id, "final")

\* is_final has returned false on the tied game, and the cycle that polled it has
\* sent its game start and no final
C23_Witness ==
    /\ returned.op = "is_final"
    /\ returned.arg[1].status = IN_PROGRESS
    /\ returned.arg[1].status_text = <<"E","n","d"," ","o","f"," ","Q","4">>
    /\ returned.arg[1].home_score = returned.arg[1].away_score
    /\ returned.value[1] = FALSE
    /\ polled # <<>>
    /\ polled[1].status_text = <<"E","n","d"," ","o","f"," ","Q","4">>
    /\ polled[1].home_score = polled[1].away_score
    /\ Attempted(log, "g1", "game_start")

\* C24: detect_close_game returns a signal exactly when the status is IN_PROGRESS,
\* the period is 4 or more and the scores are at most 5 apart; the signal carries
\* that margin, the period and the clock of the game; otherwise it returns none.
C24_DetectCloseGame ==
    returned.op = "detect_close_game" =>
        LET game == returned.arg[1]
            margin == IF game.home_score >= game.away_score
                      THEN game.home_score - game.away_score
                      ELSE game.away_score - game.home_score
        IN  IF game.status = IN_PROGRESS /\ game.period >= 4 /\ margin <= 5
            THEN /\ Len(returned.value[1]) = 1
                 /\ returned.value[1][1].point_diff = margin
                 /\ returned.value[1][1].period = game.period
                 /\ returned.value[1][1].clock = game.clock
            ELSE returned.value[1] = <<>>

\* detect_close_game has returned a signal with margin 5 in overtime
C24_Witness ==
    /\ returned.op = "detect_close_game"
    /\ returned.arg[1].period = 5
    /\ returned.arg[1].home_score = 100 /\ returned.arg[1].away_score = 95
    /\ returned.value[1] # <<>>
    /\ returned.value[1][1].point_diff = 5

\* C25: detect_quarter_end returns the first that applies: 2 when the status text
\* contains "Half"; 1 when it contains "End of Q1"; 3 when it contains "End of Q3";
\* the period of the game when it contains "End of OT"; the larger of the period
\* and 4 when the status is FINISHED; else none.
C25_DetectQuarterEnd ==
    returned.op = "detect_quarter_end" =>
        LET game == returned.arg[1]
            text == game.status_text
        IN  returned.value[1] =
                IF Contains(<<"H","a","l","f">>, text) THEN <<2>>
                ELSE IF Contains(<<"E","n","d"," ","o","f"," ","Q","1">>, text) THEN <<1>>
                ELSE IF Contains(<<"E","n","d"," ","o","f"," ","Q","3">>, text) THEN <<3>>
                ELSE IF Contains(<<"E","n","d"," ","o","f"," ","O","T">>, text) THEN <<game.period>>
                ELSE IF game.status = FINISHED
                     THEN <<IF game.period > 4 THEN game.period ELSE 4>>
                ELSE <<>>

\* a FINISHED game whose text still says Halftime has given 2
C25_Witness ==
    /\ returned.op = "detect_quarter_end"
    /\ returned.arg[1].status = FINISHED
    /\ returned.arg[1].period = 4
    /\ Contains(<<"H","a","l","f">>, returned.arg[1].status_text)
    /\ returned.value[1] = <<2>>

\* how many of the alerts are of this kind for this player
AlertsOf(alerts, name, kind) ==
    Cardinality({ i \in 1..Len(alerts) : alerts[i].name = name /\ alerts[i].alert_type = kind })

\* C26: for every player of either team, detect_performance_alerts returns, with c
\* the number of the five categories at 10 or more: nothing if the player did not
\* play; else one triple_double if c >= 3, one triple_double_watch if c = 2 and some
\* category is in 7..9, neither otherwise; and one high_scorer exactly when the
\* points are 40 or more.
C26_DetectPerformanceAlerts ==
    returned.op = "detect_performance_alerts" =>
        LET game == returned.arg[1]
            alerts == returned.value[1]
            players == game.home_players \o game.away_players
            c(player) ==
                Cardinality({ k \in {"points", "rebounds", "assists", "steals", "blocks"} :
                                player.stats[k] >= 10 })
            near(player) ==
                \E k \in {"points", "rebounds", "assists", "steals", "blocks"} :
                    player.stats[k] >= 7 /\ player.stats[k] < 10
            N(b) == IF b THEN 1 ELSE 0
        IN  /\ \A i \in 1..Len(players) :
                LET player == players[i]
                IN  /\ AlertsOf(alerts, player.name, "triple_double")
                          = N(player.played /\ c(player) >= 3)
                    /\ AlertsOf(alerts, player.name, "triple_double_watch")
                          = N(player.played /\ c(player) = 2 /\ near(player))
                    /\ AlertsOf(alerts, player.name, "high_scorer")
                          = N(player.played /\ player.stats.points >= 40)
            /\ \A j \in 1..Len(alerts) :
                /\ \E i \in 1..Len(players) : players[i].name = alerts[j].name
                /\ alerts[j].alert_type \in {"triple_double", "triple_double_watch", "high_scorer"}

\* a player of the away team with steals, blocks and points at 10 or more, and 41
\* points, has given one triple_double and one high_scorer
C26_Witness ==
    /\ returned.op = "detect_performance_alerts"
    /\ returned.arg[1].away_players # <<>>
    /\ returned.arg[1].away_players[1].played
    /\ returned.arg[1].away_players[1].stats
         = [points |-> 41, rebounds |-> 3, assists |-> 3, steals |-> 10, blocks |-> 10]
    /\ AlertsOf(returned.value[1], "A", "triple_double") = 1
    /\ AlertsOf(returned.value[1], "A", "high_scorer") = 1
    /\ Len(returned.value[1]) = 2

\* the player of the example: played, 12 points, 11 rebounds, 3 assists, 1 steal,
\* no block
ExamplePlayer(player) ==
    /\ player.played
    /\ player.stats = [points |-> 12, rebounds |-> 11, assists |-> 3, steals |-> 1, blocks |-> 0]

\* C27 as stated: the player of the example gives exactly one triple_double.
C27_ExampleGivesTripleDouble ==
    (returned.op = "detect_performance_alerts"
        /\ \E i \in 1..Len(returned.arg[1].home_players) :
               ExamplePlayer(returned.arg[1].home_players[i]))
    => AlertsOf(returned.value[1], "A", "triple_double") = 1

\* C27 amended: the player of the example, with two categories at 10 or more and
\* no other at 7 or more, gives no signal at all.
C27_ExampleGivesNothing ==
    (returned.op = "detect_performance_alerts"
        /\ \E i \in 1..Len(returned.arg[1].home_players) :
               ExamplePlayer(returned.arg[1].home_players[i]))
    => returned.value[1] = <<>>

\* detect_performance_alerts has returned on a game with the player of the example
C27_Witness ==
    /\ returned.op = "detect_performance_alerts"
    /\ returned.arg[1].home_players # <<>>
    /\ ExamplePlayer(returned.arg[1].home_players[1])
    /\ returned.value[1] = <<>>


\* C28: a game that stays close is not silenced for good. A poll cycle that finds
\* a game close (in progress, period 4 or more, at most 5 apart), with a thread
\* handle and no cooldown running, calls the notifier for a close-game alert; a
\* cooldown that is running goes down by one in every cycle that has games; and an
\* alert that went out leaves the cooldown below the configured number of cycles.
C28_CloseAlertsRecur ==
    [][\A i \in 1..Len(polled') :
          LET g == polled'[i].game_id
              game == enrich_game_with_boxscore(from_schedule_api(polled'[i]))
              margin == IF game.home_score >= game.away_score
                        THEN game.home_score - game.away_score
                        ELSE game.away_score - game.home_score
              close == game.status = IN_PROGRESS /\ game.period >= 4 /\ margin <= 5
          IN  /\ (close /\ close_game_cooldowns[g] = 0 /\ state'.games[g].thread_ts # None)
                   => Attempted(log', g, "close_game")
              /\ close_game_cooldowns[g] > 0
                   => close_game_cooldowns'[g] = close_game_cooldowns[g] - 1
              /\ Emitted(log', g, "close_game")
                   => close_game_cooldowns'[g] < CLOSE_GAME_ALERT_COOLDOWN_POLLS]_vars

\* the second close-game alert of g1 has just gone out, the cooldown of the first
\* having run down
C28_Witness ==
    /\ Delivered(<<"g1", "close_game", "">>) = 2
    /\ Emitted(log, "g1", "close_game")
    /\ Len(state.games["g1"].close_game_alerts) = 2


\* C29: FINAL is terminal. The schedule holds the same snapshot of the game in every
\* poll, so no FINISHED game ever returns to IN_PROGRESS; once the final of a game
\* is on record, no later poll cycle delivers a game-start, halftime, close-game or
\* performance notification for that game.
C29_FinalIsTerminal ==
    [][\A g \in DOMAIN state.games :
          state.games[g].final_posted
          => \A key \in DOMAIN delivered' :
                (key[1] = g /\ key[2] # "final")
                => key \in DOMAIN delivered /\ delivered'[key] = delivered[key]]_vars

\* C30: the cooldown of a game starts only in a poll cycle that delivered a
\* close-game alert for that game.
C30_CooldownOnlyOnEmission ==
    [][\A g \in GameIds :
          (close_game_cooldowns[g] = 0 /\ close_game_cooldowns'[g] > 0)
          => Emitted(log', g, "close_game")]_vars

\* how far a call of _request_with_retry is from its return, in statements
RetryDistance ==
    IF request_at = None THEN 0
    ELSE 2 * (3 - Len(gets)) + (IF request_at = "sleep" THEN 1 ELSE 0)

\* C31: _request_with_retry makes at most 3 attempts; every attempt but the last of
\* a call raised a request error, so the first success ends the call, which returns
\* that response's decoded body; it has slept 2^k seconds after failed attempt k
\* (k = 0, 1) and never after the last attempt; after a third request error it
\* returns None; it never raises a request error; and every step of a call brings
\* it nearer its return, so the call ends.
C31_RetryIsBounded ==
    /\ [](/\ Len(gets) <= 3
          /\ \A i \in 1..Len(gets) - 1 : gets[i].raised \in RequestException
          /\ Len(wait_times) <= 2
          /\ \A k \in 1..Len(wait_times) : wait_times[k] = 2 ^ (k - 1)
          /\ request_at = "get" => Len(wait_times) = Len(gets)
          /\ request_at = "sleep" => Len(wait_times) = Len(gets) - 1 /\ Len(gets) < 3
          /\ (request_at = None /\ gets # <<>>) =>
                /\ returned.op = "_request_with_retry"
                /\ Len(wait_times) = Len(gets) - 1
                /\ returned.raised \notin RequestException
                /\ gets[Len(gets)].raised = None =>
                      returned.raised = None /\ returned.value = gets[Len(gets)].value
                /\ gets[Len(gets)].raised \in RequestException =>
                      Len(gets) = 3 /\ returned.raised = None /\ returned.value = <<None>>)
    /\ [][request_at # None => RetryDistance' < RetryDistance]_request_vars

\* three request errors in a row: the call has slept 1 and 2 seconds and returned None
C31_Witness ==
    /\ request_at = None
    /\ Len(gets) = 3
    /\ gets[3].raised \in RequestException
    /\ wait_times = <<1, 2>>
    /\ returned.value = <<None>>

\* C32: a poll cycle leaves every game B as a cycle polling B alone could leave it,
\* whatever was handled for the other game: B's durable state and cooldown counter
\* after the cycle are those of some run of check_games on B's entry alone; a game
\* absent from the cycle's list keeps its durable state, and its counter is only
\* decremented, once, when the list is not empty.
C32_CrossGameIndependence ==
    [][\A B \in GameIds :
         LET alone == SnapshotOf(polled', B)
         IN  IF alone = <<>>
             THEN /\ (B \in DOMAIN state'.games) = (B \in DOMAIN state.games)
                  /\ B \in DOMAIN state.games => state'.games[B] = state.games[B]
                  /\ close_game_cooldowns'[B] =
                        IF polled' = <<>> \/ close_game_cooldowns[B] = 0
                        THEN close_game_cooldowns[B]
                        ELSE close_game_cooldowns[B] - 1
             ELSE \E sv \in check_games(Service, alone) :
                     /\ (B \in DOMAIN state'.games) = (B \in DOMAIN sv.state.games)
                     /\ B \in DOMAIN state'.games => state'.games[B] = sv.state.games[B]
                     /\ close_game_cooldowns'[B] = sv.cooldowns[B]]_vars

\* g1's close-game alert went out in a cycle in which g2, started and alerted
\* before, was on the list with its counter running
C32_Witness ==
    /\ Len(polled) = 2
    /\ Emitted(log, "g1", "close_game")
    /\ ~Attempted(log, "g2", "close_game")
    /\ "g2" \in DOMAIN state.games
    /\ state.games["g2"].close_game_alerts # <<>>
    /\ close_game_cooldowns["g2"] \in 1..3

\* C33: in the state in memory and in the state the file would be loaded as, a game
\* has game_started_posted exactly when it has a thread_ts.
C33_StartedIffThread ==
    /\ \A g \in DOMAIN state.games :
          state.games[g].game_started_posted = (state.games[g].thread_ts # None)
    /\ LET reloaded == load(file, today)
       IN  \A g \in DOMAIN reloaded.games :
              reloaded.games[g].game_started_posted = (reloaded.games[g].thread_ts # None)

\* a new process has loaded a started game: the flag and the handle are both there
C33_Witness ==
    /\ feed = Feed.Milestone
    /\ polled = <<>>
    /\ "g1" \in DOMAIN state.games
    /\ state.games["g1"].game_started_posted
    /\ state.games["g1"].thread_ts = MessageTs

\* C34: a game that has no thread handle after a poll cycle got no close-game and no
\* performance notifier call in that cycle and has no close-game handle and no
\* performance-alert key on record; and in a cycle after which an in-progress game
\* has a thread handle, the notifier is called for every performance alert the cycle
\* detects for it that was not on record before.
C34_AlertsOnlyInThread ==
    [][\A g \in GameIds :
          /\ GameStateOf(state', g).thread_ts = None
                => /\ \A i \in 1..Len(log') :
                         log'[i].game_id = g =>
                            log'[i].kind \notin {"close_game", "triple_double",
                                                 "triple_double_watch", "high_scorer"}
                   /\ GameStateOf(state', g).performance_alerts = <<>>
                   /\ GameStateOf(state', g).close_game_alerts = <<>>
          /\ (InProgressIn(polled', g) /\ GameStateOf(state', g).thread_ts # None)
                => LET alerts == detect_performance_alerts(Observed(polled', g)[1])
                   IN  \A i \in 1..Len(alerts) :
                          ~OnRecord(GameStateOf(state, g), alerts[i])
                             => CalledFor(log', g, alerts[i])
      ]_vars

\* the poll showed player A's triple-double while the game-start message, and with
\* it the thread, had failed: the only notifier call of the cycle is that game start
C34_Witness ==
    /\ InProgressIn(polled, "g1")
    /\ detect_performance_alerts(Observed(polled, "g1")[1]) # <<>>
    /\ "g1" \in DOMAIN state.games
    /\ state.games["g1"].thread_ts = None
    /\ log = <<Call("g1", "game_start", "", None)>>

\* C35: in every poll cycle that calls the notifier for the end-of-night summary,
\* every game of the cycle's list has final_posted on record when the cycle ends,
\* and the notifier call for the summary comes after the cycle's last call for a final.
C35_FinalBeforeEndOfNight ==
    [][Attempted(log', "", "end_of_night")
        => /\ \A i \in 1..Len(polled') :
                 /\ polled'[i].game_id \in DOMAIN state'.games
                 /\ state'.games[polled'[i].game_id].final_posted
           /\ \A j, k \in 1..Len(log') :
                 (log'[j].kind = "final" /\ log'[k].kind = "end_of_night") => j < k
      ]_vars

\* both games of the night were polled finished in one cycle: two finals, then the summary
C35_Witness ==
    /\ Len(polled) = 2
    /\ Len(log) = 3
    /\ log[1].kind = "final"
    /\ log[2].kind = "final"
    /\ log[3].kind = "end_of_night"
    /\ state.games["g1"].final_posted
    /\ state.games["g2"].final_posted

\* C36: in every poll cycle no game is on two of the lists not_started, in_progress
\* and finished, and no game gets both a call of the in-progress handlers (game start,
\* halftime, close game, performance) and the final call.
C36_OneRolePerCycle ==
    [][\A i \in 1..Len(polled') :
          LET game == from_schedule_api(polled'[i])
              g == game.game_id
          IN  /\ ~(game.status = NOT_STARTED /\ in_progress_test(game))
              /\ ~(game.status = NOT_STARTED /\ is_final(game))
              /\ ~(in_progress_test(game) /\ is_final(game))
              /\ ~(/\ Attempted(log', g, "final")
                   /\ \E k \in 1..Len(log') : log'[k].game_id = g /\ log'[k].kind # "final")
      ]_vars

\* C37: no two tasks of a poll cycle's worker pool are for the same Game object, and
\* no task is for a finished game whose final is on record.
C37_OneTaskPerGame ==
    /\ \A t, u \in DOMAIN futures : futures[t].game = futures[u].game => t = u
    /\ at = "join" =>
          \A t \in DOMAIN futures :
             LET game == cycle_games[futures[t].game]
             IN  ~(is_final(game) /\ GameStateOf(state, game.game_id).final_posted)

\* C38: in one process on one day every poll cycle keeps every game on record; a
\* flag that was true (game_started_posted, halftime_posted, final_posted, the day's
\* end_of_night_posted) is true after it; posted_quarters, close_game_alerts and
\* performance_alerts after it begin with what they were before it; and no quarter
\* and no performance-alert key is on its list twice.
C38_MilestonesOnlyGrow ==
    [][/\ state.end_of_night_posted => state'.end_of_night_posted
       /\ \A g \in DOMAIN state.games :
             /\ g \in DOMAIN state'.games
             /\ LET before == state.games[g]
                    after == state'.games[g]
                IN  /\ before.game_started_posted => after.game_started_posted
                    /\ before.halftime_posted => after.halftime_posted
                    /\ before.final_posted => after.final_posted
                    /\ \A i \in 1..Len(before.posted_quarters) :
                          i <= Len(after.posted_quarters)
                          /\ after.posted_quarters[i] = before.posted_quarters[i]
                    /\ \A i \in 1..Len(before.close_game_alerts) :
                          i <= Len(after.close_game_alerts)
                          /\ after.close_game_alerts[i] = before.close_game_alerts[i]
                    /\ \A i \in 1..Len(before.performance_alerts) :
                          i <= Len(after.performance_alerts)
                          /\ after.performance_alerts[i] = before.performance_alerts[i]
       /\ \A g \in DOMAIN state'.games :
             /\ \A i, j \in 1..Len(state'.games[g].posted_quarters) :
                   state'.games[g].posted_quarters[i] = state'.games[g].posted_quarters[j] => i = j
             /\ \A i, j \in 1..Len(state'.games[g].performance_alerts) :
                   state'.games[g].performance_alerts[i] = state'.games[g].performance_alerts[j]
                      => i = j
      ]_vars

\* the night is over for g1: start, halftime and final are on record with quarters
\* 2 and 4, the summary is posted, and g1 was polled again
C38_Witness ==
    /\ "g1" \in DOMAIN state.games
    /\ state.games["g1"].game_started_posted
    /\ state.games["g1"].halftime_posted
    /\ state.games["g1"].final_posted
    /\ state.games["g1"].posted_quarters = <<2, 4>>
    /\ state.end_of_night_posted
    /\ polled # <<>>
    /\ log = <<>>

\* C39: every call of save_game, mark_end_of_night_posted or flush returns without
\* raising, and the state in memory holds the mutation after it; when the write of
\* the call failed the state stays marked dirty and the file is as it was or is cut
\* short; when it succeeded, after this call or after any earlier failed one, the
\* dirty mark is cleared and the file holds the whole state in memory; a flush of a
\* state that is not dirty leaves the file alone.
C39_FailedWriteKeepsState ==
    [][(StoreSaveGame \/ StoreMarkEndOfNightPosted \/ StoreFlush)
        => /\ returned'.raised = None
           /\ returned'.op = "save_game" =>
                 /\ returned'.arg[1].game_id \in DOMAIN state'.games
                 /\ state'.games[returned'.arg[1].game_id] = returned'.arg[1]
                 /\ \A g \in DOMAIN state.games : g \in DOMAIN state'.games
           /\ returned'.op = "mark_end_of_night_posted" =>
                 state'.end_of_night_posted /\ state'.games = state.games
           /\ returned'.op = "flush" => state' = state
           /\ (returned'.op = "flush" /\ ~dirty) => (file' = file /\ ~dirty')
           /\ (returned'.op # "flush" \/ dirty) =>
                 IF dirty'
                 THEN commit_failed' /\ file' \in {file, <<[bytes |-> "not json"]>>}
                 ELSE file' = <<to_dict(state')>>
      ]_vars

\* a save_game whose write failed was followed by another call whose write
\* succeeded: the file holds the state in memory, the game of the failed write in it
C39_Witness ==
    /\ commit_failed
    /\ ~dirty
    /\ returned.op \in {"flush", "mark_end_of_night_posted"}
    /\ "g1" \in DOMAIN state.games
    /\ state.games["g1"].game_started_posted
    /\ file = <<to_dict(state)>>
    /\ file[1].games["g1"].game_started_posted

=============================================================================
